---- MODULE Spec2Model ----
(***************************************************************************)
(* Routing and booking reconciliation of the screenshot processor.         *)
(*                                                                         *)
(* Text is modelled as a sequence of tokens.  A token is a string: either  *)
(* one character (client names, platforms, handles and file names, which   *)
(* the slug and substring code inspects character by character), the       *)
(* newline "\n", or an atomic piece of text ("status: ", "## Tasks", a     *)
(* date in ISO form, an item's content).  Files hold token sequences, so   *)
(* the read / substitute / write code is modelled on what it does to the   *)
(* content.                                                                *)
(***************************************************************************)
EXTENDS Integers, Sequences, FiniteSets, TLC

VARIABLES
    files,           \* Drive: the vault's markdown files, in listing order
    folders,         \* Drive: the vault folders that exist (paths)
    tasks,           \* TickTick: the tasks created so far
    projects,        \* TickTick: the names of the projects that exist
    projects_cache,  \* ticktick_client._projects_cache
    configured,      \* ticktick_client.is_configured()
    clock,           \* the wall-clock date, date.today()
    pc,              \* route_items: "idle", "routing", "done" or "raised"
    analysis,        \* route_items: the analysis being routed
    idx,             \* route_items: position of the for loop in items
    today,           \* route_items: target_date or date.today()
    daily_note_id,   \* route_items: the pre-fetched daily note (0 is None)
    counts,          \* route_items: the count map
    content_block,   \* route_items: the fragment formatted for the last item
    ai_calls,        \* number of reply-synthesis calls made to the model
    budget,          \* items that may still be routed in this run
    faults,          \* collaborator failures that may still be injected
    last,            \* history: what the last loop iteration did
    bookings,        \* history: the BOOKING items handled, in order
    vkind,           \* validator: "image" or "text"
    vresult,         \* validator: the result under validation
    vout,            \* validator: "pending", "ok" or "fails"
    inserted,        \* history: the fragments appended under a heading
    inbox,           \* Drive: the ids of the inbox's files, in listing order
    archive,         \* Drive: the ids of the files moved to the archive
    hpc,             \* inbox handler: "idle", "loop" or "returned"
    listing,         \* inbox handler: files, the listing of the inbox
    batch,           \* inbox handler: batch = files[:BATCH_SIZE]
    bpos,            \* inbox handler: position of the for loop in batch
    results,         \* inbox handler: the files processed
    errors,          \* inbox handler: the error messages collected
    response,        \* inbox handler: what the invocation returned
    effects,         \* inbox handler: the durable effects of _process_single,
                     \* in order, each [file, step]
    akind,           \* analyzer: "image" (analyze_image) or "text" (analyze_text)
    apc,             \* analyzer: "idle", "try", "returned" or "raised"
    attempt,         \* analyzer: attempt of the for loop
    responses,       \* analyzer: the model's responses to this analysis
    aout,            \* analyzer: the exception raised, "ok" or "none"
    dlabel,          \* digest: the label of the digest being generated
    dpc,             \* digest: "idle", "try", "generated", "sent" or "unsent"
    dattempt,        \* digest: attempt of the for loop of _call_gemini
    dlast_error,     \* digest: last_error, the text of the last exception
    dcontent,        \* digest: the content _call_gemini returned
    dtext,           \* digest: the text given to send_message
    appender,        \* two invocations in append_to_md: for each its position
                     \* ("start", "read", "done"), the content it read, its
                     \* fragment and its heading
    overlapped       \* whether an invocation read while the other was between
                     \* its read and its write

routerVars ==
    <<files, folders, tasks, projects, projects_cache, configured, clock,
      pc, analysis, idx, today, daily_note_id, counts, content_block,
      ai_calls, budget, faults, last, bookings>>

validatorVars == <<vkind, vresult, vout>>

handlerVars ==
    <<inbox, archive, hpc, listing, batch, bpos, results, errors, response,
      effects>>

analyzerVars == <<akind, apc, attempt, responses, aout>>

digestVars == <<dlabel, dpc, dattempt, dlast_error, dcontent, dtext>>

concVars == <<appender, overlapped>>

otherVars == <<inserted, handlerVars, analyzerVars, digestVars, concVars>>

vars == <<routerVars, validatorVars, otherVars>>

\* ------------------------------------------------------------------------
\* Bounds of the model
\* ------------------------------------------------------------------------
MaxItems == 2
MaxFaults == 1
MaxValItems == 2
MaxAppends == 3
MaxInbox == 17
MaxResolves == 4

\* ------------------------------------------------------------------------
\* Text helpers
\* ------------------------------------------------------------------------
NL == "\n"

Min(a, b) == IF a < b THEN a ELSE b

LowerLetters ==
    <<"a","b","c","d","e","f","g","h","i","j","k","l","m",
      "n","o","p","q","r","s","t","u","v","w","x","y","z">>
UpperLetters ==
    <<"A","B","C","D","E","F","G","H","I","J","K","L","M",
      "N","O","P","Q","R","S","T","U","V","W","X","Y","Z">>
Digits == {"0","1","2","3","4","5","6","7","8","9"}
Whitespace == {" ", "\t", "\n"}

Range(s) == {s[i] : i \in DOMAIN s}

\* str.lower(), one character
LowerChar(c) ==
    IF \E i \in DOMAIN UpperLetters : UpperLetters[i] = c
    THEN LowerLetters[CHOOSE i \in DOMAIN UpperLetters : UpperLetters[i] = c]
    ELSE c

\* str.lower()
Lower(s) == [i \in DOMAIN s |-> LowerChar(s[i])]

RECURSIVE LStripSet(_, _)
LStripSet(s, cs) ==
    IF s # <<>> /\ Head(s) \in cs THEN LStripSet(Tail(s), cs) ELSE s

RECURSIVE RStripSet(_, _)
RStripSet(s, cs) ==
    IF s # <<>> /\ s[Len(s)] \in cs
    THEN RStripSet(SubSeq(s, 1, Len(s) - 1), cs)
    ELSE s

\* str.strip()
Strip(s) == RStripSet(LStripSet(s, Whitespace), Whitespace)

\* needle in hay
IsSubstring(needle, hay) ==
    \E i \in 1..(Len(hay) - Len(needle) + 1) :
        SubSeq(hay, i, i + Len(needle) - 1) = needle

\* hay.index(needle), for a needle that occurs
IndexOf(needle, hay) ==
    CHOOSE i \in 1..(Len(hay) - Len(needle) + 1) :
        /\ SubSeq(hay, i, i + Len(needle) - 1) = needle
        /\ \A j \in 1..(i - 1) : SubSeq(hay, j, j + Len(needle) - 1) # needle

\* s.endswith("\n")
EndsWithNL(s) == s # <<>> /\ s[Len(s)] = NL

RECURSIVE Concat(_)
Concat(ss) == IF ss = <<>> THEN <<>> ELSE Head(ss) \o Concat(Tail(ss))

\* "\n".join(lines), each line a token sequence
RECURSIVE JoinLines(_)
JoinLines(ls) ==
    IF ls = <<>> THEN <<>>
    ELSE IF Len(ls) = 1 THEN ls[1]
    ELSE ls[1] \o <<NL>> \o JoinLines(Tail(ls))

\* ------------------------------------------------------------------------
\* Item fields: a JSON field is absent, null or a string
\* ------------------------------------------------------------------------
Absent == [tag |-> "absent", val |-> <<>>]
Null == [tag |-> "null", val |-> <<>>]
Str(s) == [tag |-> "str", val |-> s]

\* item.get(k) or d
Or(o, d) == IF o.tag = "str" /\ o.val # <<>> THEN o.val ELSE d

\* item.get(k, d)
GetDefault(o, d) == IF o.tag = "absent" THEN Str(d) ELSE o

\* f"{v}" of a value read with item.get(k, d): None prints as "None"
Fmt(o) == IF o.tag = "null" THEN <<"None">> ELSE o.val

\* the dates of the model, in ISO form; a date is an index into DateStr
DateStr == <<"2025-03-01", "2025-03-02">>
Dates == DOMAIN DateStr
Iso(d) == DateStr[d]

Source == "IMG_0001.png"

\* ------------------------------------------------------------------------
\* config.py
\* ------------------------------------------------------------------------
DAILY_NOTES_FOLDER == "Daily Notes"
ClientsPath == "2-Areas/Clients"
FaqName == <<"F","A","Q",".","m","d">>

NoRoute == [daily_note_heading |-> <<>>, extra_file |-> <<>>,
            ticktick |-> FALSE, booking |-> FALSE, known |-> FALSE]

RouteEntry(h, x, t, b) ==
    [daily_note_heading |-> h, extra_file |-> x,
     ticktick |-> t, booking |-> b, known |-> TRUE]

RouteEveryType(t) ==
    RouteEntry(<<>>, <<"3-Resources/Ideas", "Ideas">>, FALSE, FALSE)

\* ROUTE_MAP.get(item_type); an extra file is <<folder path, file name without ".md">>
ROUTE_MAP(t) ==
    CASE t = "TASK" -> RouteEntry(<<"## Tasks">>, <<>>, TRUE, FALSE)
      [] t = "EVENT" ->
            RouteEntry(<<"## Events">>, <<"2-Areas/Calendar", "Events">>, FALSE, FALSE)
      [] t = "IDEA" -> RouteEntry(<<>>, <<"3-Resources/Ideas", "Ideas">>, FALSE, FALSE)
      [] t = "DIARY" -> RouteEntry(<<"## Diary">>, <<>>, FALSE, FALSE)
      [] t = "REFERENCE" -> RouteEntry(<<>>, <<"3-Resources", "References">>, FALSE, FALSE)
      [] t = "FINANCE" ->
            RouteEntry(<<>>, <<"2-Areas/Finances", "Transactions">>, FALSE, FALSE)
      [] t = "PERSON" -> RouteEntry(<<>>, <<"3-Resources/People", "People">>, FALSE, FALSE)
      [] t = "LOCATION" -> RouteEntry(<<>>, <<"3-Resources/Places", "Places">>, FALSE, FALSE)
      [] t = "INSPIRATION" ->
            RouteEntry(<<>>, <<"3-Resources/Inspiration", "Inspiration">>, FALSE, FALSE)
      [] t = "QUOTE" -> RouteEntry(<<>>, <<"3-Resources/Quotes", "Quotes">>, FALSE, FALSE)
      [] t = "LEARNING" ->
            RouteEntry(<<>>, <<"3-Resources/Learning", "Learning">>, FALSE, FALSE)
      [] t = "WISHLIST" ->
            RouteEntry(<<>>, <<"3-Resources/Wishlist", "Wishlist">>, FALSE, FALSE)
      [] t = "BOOKING" -> RouteEntry(<<>>, <<>>, FALSE, TRUE)
      [] OTHER -> NoRoute

KnownTypes ==
    {"TASK", "EVENT", "IDEA", "DIARY", "REFERENCE", "FINANCE", "PERSON",
     "LOCATION", "INSPIRATION", "QUOTE", "LEARNING", "WISHLIST", "BOOKING"}

PriorityAlwaysNone(o) == 0

\* TICKTICK_PRIORITY_MAP.get(item.get("priority"), 0)
TICKTICK_PRIORITY_MAP(o) ==
    IF o.tag # "str" THEN 0
    ELSE CASE o.val = <<"high">> -> 5
           [] o.val = <<"medium">> -> 3
           [] o.val = <<"low">> -> 1
           [] OTHER -> 0

DAILY_NOTE_TEMPLATE(d) ==
    <<"---", NL, "date: ", Iso(d), NL, "---", NL, NL,
      "## Tasks", NL, NL, "## Events", NL, NL, "## Diary", NL, NL, "## Notes", NL>>

\* ------------------------------------------------------------------------
\* drive_ops.py: a file is [folder, name, content]; its id is its position
\* in files, and 0 stands for None
\* ------------------------------------------------------------------------
\* find_folder_by_path: the folder's id (its path), or "" for None
find_folder_by_path(fds, path) == IF path \in fds THEN path ELSE ""

\* find_file_by_name: the first file of that name in the folder, or 0
find_file_by_name(fs, name, folder) ==
    IF \E i \in DOMAIN fs : fs[i].folder = folder /\ fs[i].name = name
    THEN CHOOSE i \in DOMAIN fs :
            /\ fs[i].folder = folder /\ fs[i].name = name
            /\ \A j \in 1..(i - 1) : ~(fs[j].folder = folder /\ fs[j].name = name)
    ELSE 0

\* list_md_files: the ids of the folder's files, in listing order
RECURSIVE ListFrom(_, _, _)
ListFrom(fs, folder, i) ==
    IF i > Len(fs) THEN <<>>
    ELSE (IF fs[i].folder = folder THEN <<i>> ELSE <<>>) \o ListFrom(fs, folder, i + 1)

list_md_files(fs, folder) == ListFrom(fs, folder, 1)

read_md_file(fs, id) == fs[id].content

_upload_content(fs, id, content) == [fs EXCEPT ![id].content = content]

create_md_file(fs, folder, name, content) ==
    Append(fs, [folder |-> folder, name |-> name, content |-> content])

AppendAtEnd(current, new_content, under_heading) ==
    (IF EndsWithNL(current) THEN current ELSE current \o <<NL>>)
        \o new_content \o <<NL>>

OverwriteContent(current, new_content, under_heading) == new_content \o <<NL>>

\* the content append_to_md writes back; under_heading <<>> is None
AppendedContent(current, new_content, under_heading) ==
    IF under_heading # <<>> /\ IsSubstring(under_heading, current)
    THEN LET at == IndexOf(under_heading, current) + Len(under_heading) - 1
             cut == IF at < Len(current) /\ current[at + 1] = NL THEN at + 1 ELSE at
         IN  SubSeq(current, 1, cut) \o new_content \o <<NL>>
                \o SubSeq(current, cut + 1, Len(current))
    ELSE (IF EndsWithNL(current) THEN current ELSE current \o <<NL>>)
            \o new_content \o <<NL>>

append_to_md(fs, id, new_content, under_heading) ==
    _upload_content(fs, id,
        AppendedContent(read_md_file(fs, id), new_content, under_heading))

CreateDailyNoteAlways(fs, fds, d, fail) ==
    [raised |-> FALSE,
     files |-> create_md_file(fs, DAILY_NOTES_FOLDER, <<Iso(d), ".md">>,
                              DAILY_NOTE_TEMPLATE(d)),
     id |-> Len(fs) + 1]

\* find_or_create_daily_note: [raised, files, id]
find_or_create_daily_note(fs, fds, d, fail) ==
    LET filename == <<Iso(d), ".md">>
        daily_folder_id == find_folder_by_path(fds, DAILY_NOTES_FOLDER)
        existing == find_file_by_name(fs, filename, daily_folder_id)
    IN  IF fail \/ daily_folder_id = ""
        THEN [raised |-> TRUE, files |-> fs, id |-> 0]
        ELSE IF existing # 0
        THEN [raised |-> FALSE, files |-> fs, id |-> existing]
        ELSE [raised |-> FALSE,
              files |-> create_md_file(fs, daily_folder_id, filename,
                                       DAILY_NOTE_TEMPLATE(d)),
              id |-> Len(fs) + 1]

\* ------------------------------------------------------------------------
\* booking_manager.py
\* ------------------------------------------------------------------------
SlugMax == 50

NeedToReply == <<"need-to-reply">>
UnknownClient == <<"U","n","k","n","o","w","n"," ","C","l","i","e","n","t">>
UnknownPlatform == <<"U","n","k","n","o","w","n">>
General == <<"g","e","n","e","r","a","l">>

STATUS_EMOJI(status) ==
    CASE status = <<"need-to-reply">> -> "(red)"
      [] status = <<"waiting">> -> "(yellow)"
      [] status = <<"confirmed">> -> "(green)"
      [] status = <<"completed">> -> "(check)"
      [] status = <<"cancelled">> -> "(cross)"
      [] OTHER -> "(red)"

\* re.sub(r"[\s]+", "-", slug)
RECURSIVE CollapseWhitespace(_)
CollapseWhitespace(s) ==
    IF s = <<>> THEN <<>>
    ELSE IF Head(s) \in Whitespace
    THEN <<"-">> \o CollapseWhitespace(LStripSet(Tail(s), Whitespace))
    ELSE <<Head(s)>> \o CollapseWhitespace(Tail(s))

\* the characters re.sub(r"[^a-z0-9\s-]", "", slug) keeps
SlugChar(c) == c \in Range(LowerLetters) \cup Digits \cup Whitespace \cup {"-"}

_slugify(name) ==
    LET stripped == Strip(Lower(name))
        kept == SelectSeq(stripped, SlugChar)
        slug == CollapseWhitespace(kept)
    IN  SubSeq(slug, 1, Min(Len(slug), SlugMax))

_build_client_filename(client_name, platform) ==
    _slugify(client_name)
        \o (IF platform # <<>> THEN <<"-">> \o _slugify(platform) ELSE <<>>)
        \o <<".", "m", "d">>

\* _find_clients_folder_id: the folders after the call (the path is created
\* segment by segment when it is missing); the id returned is ClientsPath
_find_clients_folder_id(fds) ==
    IF find_folder_by_path(fds, ClientsPath) # "" THEN fds
    ELSE fds \cup {"2-Areas", ClientsPath}

\* the first id of ids that is in ok, or 0
FirstMatch(ids, ok) ==
    IF \E k \in DOMAIN ids : ids[k] \in ok
    THEN ids[CHOOSE k \in DOMAIN ids :
                ids[k] \in ok /\ \A j \in 1..(k - 1) : ids[j] \notin ok]
    ELSE 0

MatchFirstListed(fs, ids, client_name, platform) ==
    IF ids = <<>> THEN 0 ELSE ids[1]

\* Strategy 1: match by exact filename
MatchByFilename(fs, ids, client_name, platform) ==
    LET expected_filename == _build_client_filename(client_name, platform)
    IN  FirstMatch(ids, {i \in Range(ids) :
                            Lower(fs[i].name) = Lower(expected_filename)})

\* Strategy 2: match by handle in filename; handle.lstrip("@")
MatchByHandle(fs, ids, handle) ==
    LET handle_slug == _slugify(LStripSet(handle, {"@"}))
    IN  IF handle # <<>>
        THEN FirstMatch(ids, {i \in Range(ids) :
                                IsSubstring(handle_slug, Lower(fs[i].name))})
        ELSE 0

FindByHandleOnly(fs, clients_folder_id, client_name, platform, handle) ==
    MatchByHandle(fs, list_md_files(fs, clients_folder_id), handle)

_find_existing_client_file(fs, clients_folder_id, client_name, platform, handle) ==
    LET ids == list_md_files(fs, clients_folder_id)
        byName == MatchByFilename(fs, ids, client_name, platform)
    IN  IF byName # 0 THEN byName ELSE MatchByHandle(fs, ids, handle)

\* str.title() of a word
UpperChar(c) ==
    IF \E i \in DOMAIN LowerLetters : LowerLetters[i] = c
    THEN UpperLetters[CHOOSE i \in DOMAIN LowerLetters : LowerLetters[i] = c]
    ELSE c

IsLetter(c) == c \in Range(LowerLetters) \cup Range(UpperLetters)

Title(s) ==
    [i \in DOMAIN s |->
        IF i = 1 \/ ~IsLetter(s[i - 1]) THEN UpperChar(s[i]) ELSE LowerChar(s[i])]

\* the "- **Questions:**" lines
QuestionLines(questions) ==
    IF questions = <<>> THEN <<>>
    ELSE <<<<"- **Questions:**">>>>
            \o [i \in DOMAIN questions |-> <<"  - ">> \o questions[i]]

\* the log entry's lines, shared by the two builders
EntryLines(item, d) ==
    LET platform == Or(item.platform, UnknownPlatform)
        status == Or(item.status, NeedToReply)
    IN  << <<"### ", Iso(d), " - ">> \o platform,
           <<"- ", STATUS_EMOJI(status), " **Status:** ">> \o status,
           <<"- **Summary:** ">> \o Or(item.content, <<>>) >>
        \o QuestionLines(Or(item.questions, <<>>))
        \o << <<"- _Source: ", Source, "_">> >>

_build_new_client_content(item, d, suggested_reply) ==
    LET client_name == Or(item.name, UnknownClient)
        handle == Or(item.handle, <<>>)
        platform == Or(item.platform, UnknownPlatform)
        shoot_type == Or(item.shoot_type, General)
        status == Or(item.status, NeedToReply)
        location == Or(item.location, <<>>)
        due_date == Or(item.due_date, <<>>)
        frontmatter_lines ==
            << <<"---">>, <<"client: ">> \o client_name >>
            \o (IF handle # <<>>
                THEN << <<"handle: ", "\"">> \o handle \o <<"\"">> >> ELSE <<>>)
            \o << <<"platform: ">> \o platform,
                  <<"shoot_type: ">> \o shoot_type,
                  <<"status: ">> \o status >>
            \o (IF location # <<>> THEN << <<"location: ">> \o location >> ELSE <<>>)
            \o (IF due_date # <<>>
                THEN << <<"date_discussed: ">> \o due_date >> ELSE <<>>)
            \o << <<"created: ", Iso(d)>>,
                  <<"last_updated: ", Iso(d)>>,
                  <<"tags: [booking, ">> \o shoot_type \o <<"]">>,
                  <<"---">> >>
        md_lines ==
            << JoinLines(frontmatter_lines),
               <<>>,
               <<"# ">> \o client_name \o <<" - ">> \o Title(shoot_type)
                    \o <<" Session">>,
               <<>>,
               <<"## Conversation Log">> >>
            \o EntryLines(item, d)
            \o (IF suggested_reply # <<>>
                THEN << <<>>, <<"## Suggested Reply">>, <<"> ">> \o suggested_reply >>
                ELSE <<>>)
            \o << <<>> >>
    IN  JoinLines(md_lines)

_build_update_content(item, d, suggested_reply) ==
    LET lines ==
            << <<>> >>
            \o EntryLines(item, d)
            \o (IF suggested_reply # <<>>
                THEN << <<>>, <<"#### Suggested Reply">>, <<"> ">> \o suggested_reply >>
                ELSE <<>>)
            \o << <<>> >>
    IN  JoinLines(lines)

\* _get_faq_content: "" when the folder or the file is missing, or on error
_get_faq_content(fs, fds, fail) ==
    LET folder_id == find_folder_by_path(fds, ClientsPath)
        file_id == find_file_by_name(fs, FaqName, folder_id)
    IN  IF fail \/ folder_id = "" \/ file_id = 0 THEN <<>>
        ELSE read_md_file(fs, file_id)

\* gemini_analyzer.generate_booking_reply: [reply, called]
generate_booking_reply(faq_content, fail) ==
    IF Strip(faq_content) = <<>>
    THEN [reply |-> <<"[FAQ file is empty]">>, called |-> FALSE]
    ELSE IF fail
    THEN [reply |-> <<"[Could not generate reply]">>, called |-> TRUE]
    ELSE [reply |-> <<"(suggested reply)">>, called |-> TRUE]

\* re.sub(r"^key.+$", key + repl, content, count=1, flags=re.MULTILINE)
LineMatches(content, key, i) ==
    /\ content[i] = key
    /\ (i = 1 \/ content[i - 1] = NL)
    /\ i < Len(content)
    /\ content[i + 1] # NL

\* the last position of the line that holds position i
LineEnd(content, i) ==
    CHOOSE j \in i..Len(content) :
        /\ \A k \in (i + 1)..j : content[k] # NL
        /\ (j = Len(content) \/ content[j + 1] = NL)

ReSubLine(content, key, repl) ==
    IF \E i \in DOMAIN content : LineMatches(content, key, i)
    THEN LET at == CHOOSE i \in DOMAIN content :
                      /\ LineMatches(content, key, i)
                      /\ \A j \in 1..(i - 1) : ~LineMatches(content, key, j)
         IN  SubSeq(content, 1, at) \o repl
                \o SubSeq(content, LineEnd(content, at) + 1, Len(content))
    ELSE content

\* _update_frontmatter_status: the files after the call; a failure of the
\* read or of the upload is caught and leaves the file as it was
_update_frontmatter_status(fs, file_id, new_status, d, fail) ==
    LET content == read_md_file(fs, file_id)
        withStatus == ReSubLine(content, "status: ", Fmt(new_status))
        withDate == ReSubLine(withStatus, "last_updated: ", <<Iso(d)>>)
    IN  IF fail \/ content = <<>> THEN fs
        ELSE _upload_content(fs, file_id, withDate)

ReplyForAnyBooking(faq_content, questions) == faq_content # <<>>

\* if faq_content and questions:
WantsReply(faq_content, questions) == faq_content # <<>> /\ questions # <<>>

\* handle_booking.  F is the set of collaborator calls that fail in this
\* call.  The result holds the state after the call, whether the call
\* raised, and what it did: the file it resolved to (0 for none) and
\* whether it created a file.
handle_booking(fs, fds, calls, item, d, F) ==
    LET client_name == Or(item.name, UnknownClient)
        platform == Or(item.platform, UnknownPlatform)
        handle == Or(item.handle, <<>>)
        questions == Or(item.questions, <<>>)
        faq_content == _get_faq_content(fs, fds, "bk_faq" \in F)
        wantReply == WantsReply(faq_content, questions)
        gen == generate_booking_reply(faq_content, "bk_ai" \in F)
        suggested_reply == IF wantReply THEN gen.reply ELSE <<>>
        calls1 == IF wantReply /\ gen.called THEN calls + 1 ELSE calls
        fds1 == _find_clients_folder_id(fds)
        existing_file_id ==
            _find_existing_client_file(fs, ClientsPath, client_name, platform, handle)
        appended ==
            append_to_md(fs, existing_file_id,
                         _build_update_content(item, d, suggested_reply), <<>>)
        updated ==
            _update_frontmatter_status(appended, existing_file_id,
                GetDefault(item.status, NeedToReply), d, "bk_fm" \in F)
        created ==
            create_md_file(fs, ClientsPath,
                _build_client_filename(client_name, platform),
                _build_new_client_content(item, d, suggested_reply))
        Out(raised, fs2, fds2, file, isNew) ==
            [raised |-> raised, files |-> fs2, folders |-> fds2,
             ai_calls |-> calls1, file |-> file, created |-> isNew,
             faq |-> faq_content,
             existing |-> IF "bk_list" \in F THEN 0 ELSE existing_file_id]
    IN  IF "bk_list" \in F THEN Out(TRUE, fs, fds1, 0, FALSE)
        ELSE IF existing_file_id # 0
        THEN IF "bk_write" \in F
             THEN Out(TRUE, fs, fds1, 0, FALSE)
             ELSE Out(FALSE, updated, fds1, existing_file_id, FALSE)
        ELSE IF "bk_write" \in F
             THEN Out(TRUE, fs, fds1, 0, FALSE)
             ELSE Out(FALSE, created, fds1, Len(fs) + 1, TRUE)

\* ------------------------------------------------------------------------
\* ticktick_client.py: tt is [tasks, projects, cache]; a project's id is its
\* position in projects, 0 stands for None; the cache is [set, list]
\* ------------------------------------------------------------------------
NoCache == [set |-> FALSE, list |-> <<>>]

\* list_projects: [list, cache]; a failed fetch returns [] and caches nothing
list_projects(tt, fail) ==
    IF tt.cache.set THEN [list |-> tt.cache.list, cache |-> tt.cache]
    ELSE IF fail THEN [list |-> <<>>, cache |-> tt.cache]
    ELSE [list |-> tt.projects, cache |-> [set |-> TRUE, list |-> tt.projects]]

\* find_project_id over the listed projects
find_project_id(list, name) ==
    FirstMatch([i \in DOMAIN list |-> i],
               {i \in DOMAIN list : Lower(list[i]) = Lower(name)})

\* resolve_project: [id, tt]
resolve_project(tt, hint, F) ==
    LET listed == list_projects(tt, "tt_list" \in F)
        tt1 == [tt EXCEPT !.cache = listed.cache]
        project_id == find_project_id(listed.list, hint)
    IN  IF hint = <<>> THEN [id |-> 0, tt |-> tt]
        ELSE IF project_id # 0 THEN [id |-> project_id, tt |-> tt1]
        ELSE IF "tt_create" \in F THEN [id |-> 0, tt |-> tt1]
        ELSE [id |-> Len(tt.projects) + 1,
              tt |-> [tt1 EXCEPT !.projects = Append(tt.projects, hint),
                                 !.cache = NoCache]]

\* create_task: the task manager after the call; the POST may fail
create_task(tt, item, F) ==
    LET resolved == resolve_project(tt, Or(item.project_hint, <<>>), F)
        task_body ==
            [title |-> Or(item.content, <<>>),
             priority |-> TICKTICK_PRIORITY_MAP(item.priority),
             projectId |-> resolved.id,
             dueDate |-> Or(item.due_date, <<>>),
             tags |-> item.tags]
    IN  IF "tt_post" \in F THEN resolved.tt
        ELSE [resolved.tt EXCEPT !.tasks = Append(resolved.tt.tasks, task_body)]

\* ------------------------------------------------------------------------
\* markdown_router.py
\* ------------------------------------------------------------------------
\* ", ".join(tags)
RECURSIVE JoinComma(_)
JoinComma(ts) ==
    IF ts = <<>> THEN <<>>
    ELSE IF Len(ts) = 1 THEN <<ts[1]>>
    ELSE <<ts[1], ", ">> \o JoinComma(Tail(ts))

Take(s, n) == SubSeq(s, 1, Min(Len(s), n))

\* content.split("-")[0].strip(), the dash being the em dash
BeforeDash(s) ==
    LET cut == IF \E i \in DOMAIN s : s[i] = "--"
               THEN (CHOOSE i \in DOMAIN s :
                        s[i] = "--" /\ \A j \in 1..(i - 1) : s[j] # "--") - 1
               ELSE Len(s)
    IN  Strip(SubSeq(s, 1, cut))

PriorityEmoji(priority) ==
    IF priority.tag # "str" THEN <<>>
    ELSE CASE priority.val = <<"high">> -> <<"(high)">>
           [] priority.val = <<"medium">> -> <<"(medium)">>
           [] priority.val = <<"low">> -> <<"(low)">>
           [] OTHER -> <<>>

Opt(cond, line) == IF cond THEN <<line>> ELSE <<>>

\* _format_item; now is date.today() at the time of the call
_format_item(item, now) ==
    LET item_type == item.type
        content == item.content.val
        priority == GetDefault(item.priority, <<"medium">>)
        due_date == Or(item.due_date, <<>>)
        date_today == Iso(now)
        name == Or(item.name, <<>>)
        handle == Or(item.handle, <<>>)
        platform == Or(item.platform, <<>>)
        location == Or(item.location, <<>>)
        tags == item.tags
        added == <<"- **Added:** ", date_today>>
        notes == <<"- **Notes:** ">> \o content
        lines ==
            CASE item_type = "TASK" ->
                    << <<"- [ ] ">> \o PriorityEmoji(priority) \o <<" ">> \o content
                        \o (IF due_date # <<>> THEN <<" due ">> \o due_date ELSE <<>>) >>
              [] item_type = "PERSON" ->
                    << <<"### ">> \o (IF name # <<>> THEN name ELSE BeforeDash(content)) >>
                    \o Opt(handle # <<>>, <<"- **Handle:** ">> \o handle)
                    \o Opt(platform # <<>>, <<"- **Platform:** ">> \o platform)
                    \o << <<"- **Role:** ">> \o Or(item.role, <<"unknown">>) >>
                    \o Opt(tags # <<>>, <<"- **Tags:** ">> \o JoinComma(tags))
                    \o Opt(location # <<>>, <<"- **Location:** ">> \o location)
                    \o <<notes, added>>
              [] item_type = "LOCATION" ->
                    << <<"### ">> \o (IF name # <<>> THEN name ELSE BeforeDash(content)) >>
                    \o Opt(location # <<>>, <<"- **Location:** ">> \o location)
                    \o Opt(tags # <<>>, <<"- **Type:** ">> \o JoinComma(tags))
                    \o <<notes, added>>
              [] item_type = "INSPIRATION" ->
                    << <<"### ">> \o Take(content, 80) >>
                    \o Opt(tags # <<>>, <<"- **Style:** ">> \o JoinComma(tags))
                    \o <<notes, added>>
              [] item_type = "QUOTE" ->
                    << <<"### ">> \o Take(content, 80) >>
                    \o Opt(name # <<>>, <<"- **Author:** ">> \o name)
                    \o Opt(tags # <<>>, <<"- **Tags:** ">> \o JoinComma(tags))
                    \o <<added>>
              [] item_type = "LEARNING" ->
                    << <<"### ">> \o (IF name # <<>> THEN name ELSE Take(content, 60)) >>
                    \o Opt(platform # <<>>, <<"- **Platform:** ">> \o platform)
                    \o Opt(handle # <<>>, <<"- **Instructor:** ">> \o handle)
                    \o Opt(tags # <<>>, <<"- **Topics:** ">> \o JoinComma(tags))
                    \o <<notes, added>>
              [] item_type = "WISHLIST" ->
                    << <<"### ">> \o Take(content, 80) >>
                    \o Opt(tags # <<>>, <<"- **Category:** ">> \o JoinComma(tags))
                    \o << <<"- **Status:** want">>, notes, added >>
              [] item_type = "FINANCE" ->
                    << <<"| ", date_today, " | ">> \o content \o <<" | (screenshot) |">> >>
              [] OTHER -> << <<"- ">> \o content >>
    IN  JoinLines(lines \o << <<"  - _Source: ", Source, "_">> >>)

AppendCreatingPath(fs, fds, extra, content, fail) ==
    LET filename == <<extra[2], ".md">>
        existing == find_file_by_name(fs, filename, extra[1])
    IN  IF existing # 0
        THEN [raised |-> FALSE, files |-> append_to_md(fs, existing, content, <<>>)]
        ELSE [raised |-> FALSE,
              files |-> create_md_file(fs, extra[1], filename, content)]

\* _append_to_vault_file: [raised, files].  A missing folder is logged and
\* the call returns; a failing Drive call raises.
_append_to_vault_file(fs, fds, extra, content, fail) ==
    LET folder_path == extra[1]
        filename == <<extra[2], ".md">>
        folder_id == find_folder_by_path(fds, folder_path)
        existing == find_file_by_name(fs, filename, folder_id)
        IsStem(t) == t # ".md"
        header == <<"# ">> \o SelectSeq(filename, IsStem) \o <<NL, NL>>
    IN  IF fail THEN [raised |-> TRUE, files |-> fs]
        ELSE IF folder_id = "" THEN [raised |-> FALSE, files |-> fs]
        ELSE IF existing # 0
        THEN [raised |-> FALSE, files |-> append_to_md(fs, existing, content, <<>>)]
        ELSE [raised |-> FALSE,
              files |-> create_md_file(fs, folder_id, filename,
                                       header \o content \o <<NL>>)]

\* an item of an analysis; every optional field starts absent
Item(type, content) ==
    [type |-> type, content |-> Str(content), priority |-> Absent,
     due_date |-> Absent, name |-> Absent, handle |-> Absent,
     platform |-> Absent, status |-> Absent, questions |-> Absent,
     shoot_type |-> Absent, location |-> Absent, role |-> Absent,
     project_hint |-> Absent, tags |-> <<>>]

Photography == <<"P","h","o","t","o","g","r","a","p","h","y">>

\* the follow-up task route_items builds for a BOOKING item
FollowUp(item) ==
    LET client_name == Or(item.name, <<"Client">>)
        platform == Or(item.platform, <<>>)
        status == GetDefault(item.status, NeedToReply)
        Is(v) == status.tag = "str" /\ status.val = v
        who == client_name \o <<" - ">> \o platform
        task_title ==
            CASE Is(<<"need-to-reply">>) -> <<"Reply to ">> \o who
              [] Is(<<"waiting">>) -> <<"Follow up with ">> \o who
              [] Is(<<"confirmed">>) -> <<"Prepare shoot for ">> \o who
              [] OTHER -> <<"Booking: ">> \o who
        priority ==
            IF Is(<<"need-to-reply">>) \/ Is(<<"confirmed">>)
            THEN <<"high">> ELSE <<"medium">>
    IN  [Item("FOLLOW_UP", task_title) EXCEPT
            !.priority = Str(priority),
            !.due_date = item.due_date,
            !.project_hint = Str(Photography),
            !.tags = <<"booking">>]

\* the number of items of type t
CountType(its, t) == Cardinality({i \in DOMAIN its : its[i].type = t})

MarkSeen(cnt, t) == [k \in DOMAIN cnt \cup {t} |-> 1]

\* counts[item_type] = counts.get(item_type, 0) + 1
Increment(cnt, t) ==
    [k \in DOMAIN cnt \cup {t} |->
        IF k = t THEN (IF t \in DOMAIN cnt THEN cnt[t] + 1 ELSE 1) ELSE cnt[k]]

NoCounts == [k \in {} |-> 0]

NoLast ==
    [type |-> "", applicable |-> {}, attempted |-> {}, follow_up |-> <<>>,
     logged |-> <<>>]

\* the collaborator calls one loop iteration makes for an item, each of
\* which may fail: a fault is injected only at a call the iteration makes
FaultPoints(item) ==
    LET route == ROUTE_MAP(item.type)
        hint == IF route.booking THEN Photography ELSE Or(item.project_hint, <<>>)
        listed == IF projects_cache.set THEN projects_cache.list ELSE projects
        hasFaq == find_file_by_name(files, FaqName,
                                    find_folder_by_path(folders, ClientsPath)) # 0
        faq == _get_faq_content(files, folders, FALSE)
        existing ==
            _find_existing_client_file(files, ClientsPath,
                Or(item.name, UnknownClient), Or(item.platform, UnknownPlatform),
                Or(item.handle, <<>>))
    IN  (IF route.daily_note_heading # <<>> /\ daily_note_id # 0
         THEN {"daily_append"} ELSE {})
        \cup (IF route.extra_file # <<>> THEN {"extra"} ELSE {})
        \cup (IF (item.type = "TASK" \/ route.booking) /\ configured
              THEN {"tt_post"}
                   \cup (IF hint # <<>> /\ ~projects_cache.set
                         THEN {"tt_list"} ELSE {})
                   \cup (IF hint # <<>> /\ find_project_id(listed, hint) = 0
                         THEN {"tt_create"} ELSE {})
              ELSE {})
        \cup (IF route.booking
              THEN {"bk_list", "bk_write"}
                   \cup (IF hasFaq THEN {"bk_faq"} ELSE {})
                   \cup (IF Strip(faq) # <<>> /\ Or(item.questions, <<>>) # <<>>
                         THEN {"bk_ai"} ELSE {})
                   \cup (IF existing # 0 THEN {"bk_fm"} ELSE {})
              ELSE {})

\* needs_daily: some item's route has a daily-note heading
needs_daily(its) ==
    \E i \in DOMAIN its : ROUTE_MAP(its[i].type).daily_note_heading # <<>>

PrefetchAlways(fs, fds, its, target_date, fail) ==
    LET note == find_or_create_daily_note(fs, fds, target_date, fail)
    IN  IF note.raised THEN [pc |-> "raised", files |-> fs, id |-> 0]
        ELSE [pc |-> IF its = <<>> THEN "done" ELSE "routing",
              files |-> note.files, id |-> note.id]

\* route_items from "if not items" to the pre-fetch of the daily note:
\* [pc, files, id], pc being where route_items goes next
PrefetchDailyNote(fs, fds, its, target_date, fail) ==
    LET note == find_or_create_daily_note(fs, fds, target_date, fail)
    IN  IF its = <<>> THEN [pc |-> "done", files |-> fs, id |-> 0]
        ELSE IF ~needs_daily(its) THEN [pc |-> "routing", files |-> fs, id |-> 0]
        ELSE IF note.raised THEN [pc |-> "raised", files |-> fs, id |-> 0]
        ELSE [pc |-> "routing", files |-> note.files, id |-> note.id]

\* route_items up to the for loop, called as main.py calls it, with
\* date.today() as the target date: items is analysis.get("items", []), the
\* empty list when the analysis has no "items"; the empty list returns at
\* once; the daily note is looked up when some item has a daily-note
\* heading, and a failure of that lookup leaves route_items by an
\* exception.  Points is the set of collaborator calls whose failure the
\* specification explores.
Start(Items, Points) ==
    /\ pc \in {"idle", "done", "raised"}
    /\ \E n \in 0..budget, target_date \in {clock},
          fail \in {FALSE} \cup {"daily_lookup" \in Points},
          given \in {"list", "absent"} :
       \E its \in [1..n -> Items] :
          LET pre == PrefetchDailyNote(files, folders, its, target_date, fail)
          IN  /\ given = "absent" => n = 0
              /\ fail => (faults > 0 /\ needs_daily(its))
              /\ faults' = IF fail THEN faults - 1 ELSE faults
              /\ budget' = budget - n
              /\ analysis' = [items |-> its, given |-> given]
              /\ today' = target_date
              /\ counts' = NoCounts
              /\ idx' = 1
              /\ content_block' = <<>>
              /\ last' = NoLast
              /\ pc' = pre.pc
              /\ daily_note_id' = pre.id
              /\ files' = pre.files
    /\ UNCHANGED <<folders, tasks, projects, projects_cache, configured, clock,
                   ai_calls, bookings, vkind, vresult, vout>>
    /\ UNCHANGED otherVars

\* one iteration of the for loop, for an item whose type has no route
SkipUnknown ==
    /\ pc = "routing"
    /\ idx <= Len(analysis.items)
    /\ ~ROUTE_MAP(analysis.items[idx].type).known
    /\ idx' = idx + 1
    /\ last' = [NoLast EXCEPT !.type = analysis.items[idx].type]
    /\ UNCHANGED <<files, folders, tasks, projects, projects_cache, configured,
                   clock, pc, analysis, today, daily_note_id, counts,
                   content_block, ai_calls, budget, faults, bookings,
                   vkind, vresult, vout>>
    /\ UNCHANGED otherVars

\* one iteration of the for loop, for an item whose type has a route
RouteItem(Points) ==
    /\ pc = "routing"
    /\ idx <= Len(analysis.items)
    /\ ROUTE_MAP(analysis.items[idx].type).known
    /\ \E F \in SUBSET (FaultPoints(analysis.items[idx]) \cap Points) :
          LET item == analysis.items[idx]
              item_type == item.type
              route == ROUTE_MAP(item_type)
              block == _format_item(item, clock)
              heading == route.daily_note_heading
              doDaily == heading # <<>> /\ daily_note_id # 0
              fs1 == IF doDaily /\ "daily_append" \notin F
                     THEN append_to_md(files, daily_note_id, block, heading)
                     ELSE files
              doExtra == route.extra_file # <<>>
              fs2 == IF doExtra
                     THEN _append_to_vault_file(fs1, folders, route.extra_file,
                                                block, "extra" \in F).files
                     ELSE fs1
              tt0 == [tasks |-> tasks, projects |-> projects,
                      cache |-> projects_cache]
              doTask == item_type = "TASK" /\ configured
              tt1 == IF doTask THEN create_task(tt0, item, F) ELSE tt0
              bk == handle_booking(fs2, folders, ai_calls, item, today, F)
              doFollow == route.booking /\ ~bk.raised /\ configured
              tt2 == IF doFollow THEN create_task(tt1, FollowUp(item), F) ELSE tt1
          IN  /\ Cardinality(F) <= faults
              /\ faults' = faults - Cardinality(F)
              /\ content_block' = block
              /\ files' = IF route.booking THEN bk.files ELSE fs2
              /\ folders' = IF route.booking THEN bk.folders ELSE folders
              /\ ai_calls' = IF route.booking THEN bk.ai_calls ELSE ai_calls
              /\ tasks' = tt2.tasks
              /\ projects' = tt2.projects
              /\ projects_cache' = tt2.cache
              /\ counts' = Increment(counts, item_type)
              /\ idx' = idx + 1
              /\ last' =
                    [type |-> item_type,
                     applicable |->
                        (IF doDaily THEN {"daily"} ELSE {})
                        \cup (IF doExtra THEN {"extra"} ELSE {})
                        \cup (IF doTask THEN {"task"} ELSE {})
                        \cup (IF route.booking THEN {"booking"} ELSE {})
                        \cup (IF route.booking /\ configured
                              THEN {"follow_up"} ELSE {}),
                     attempted |->
                        (IF doDaily THEN {"daily"} ELSE {})
                        \cup (IF doExtra THEN {"extra"} ELSE {})
                        \cup (IF doTask THEN {"task"} ELSE {})
                        \cup (IF route.booking THEN {"booking"} ELSE {})
                        \cup (IF doFollow THEN {"follow_up"} ELSE {}),
                     follow_up |-> IF doFollow THEN <<FollowUp(item)>> ELSE <<>>,
                     logged |-> IF route.booking /\ ~bk.raised
                                THEN <<Or(item.status, NeedToReply)>> ELSE <<>>]
              /\ bookings' =
                    IF route.booking
                    THEN Append(bookings,
                            [item |-> item, date |-> today, raised |-> bk.raised,
                             file |-> bk.file, created |-> bk.created,
                             existing |-> bk.existing, faq |-> bk.faq,
                             ai_calls |-> bk.ai_calls - ai_calls,
                             before |-> fs2,
                             after |-> bk.files])
                    ELSE bookings
    /\ UNCHANGED <<configured, clock, pc, analysis, today, daily_note_id,
                   budget, vkind, vresult, vout>>
    /\ UNCHANGED otherVars

\* the end of the for loop: route_items returns counts
Finish ==
    /\ pc = "routing"
    /\ idx > Len(analysis.items)
    /\ pc' = "done"
    /\ UNCHANGED <<files, folders, tasks, projects, projects_cache, configured,
                   clock, analysis, idx, today, daily_note_id, counts,
                   content_block, ai_calls, budget, faults, last, bookings,
                   vkind, vresult, vout>>
    /\ UNCHANGED otherVars

\* midnight passes
Tick ==
    /\ clock < Len(DateStr)
    /\ clock' = clock + 1
    /\ UNCHANGED <<files, folders, tasks, projects, projects_cache, configured,
                   pc, analysis, idx, today, daily_note_id, counts,
                   content_block, ai_calls, budget, faults, last, bookings,
                   vkind, vresult, vout>>
    /\ UNCHANGED otherVars

\* ------------------------------------------------------------------------
\* gemini_analyzer.py: the validators.  A result is [keys, is_list, items]:
\* the keys it has, whether its "items" is a list, and its items, each
\* [has_type, has_content, type]
\* ------------------------------------------------------------------------
ImageRequiredKeys ==
    {"summary", "language", "transcript", "filename_suggestion", "items"}
TextRequiredKeys == {"summary", "language", "filename_suggestion", "items"}

ImageValidTypes ==
    {"TASK", "EVENT", "IDEA", "DIARY", "REFERENCE", "FINANCE", "PERSON",
     "LOCATION", "INSPIRATION", "QUOTE", "LEARNING", "WISHLIST", "BOOKING",
     "RECIPE", "KNOWLEDGE"}
TextValidTypes ==
    {"TASK", "EVENT", "IDEA", "DIARY", "REFERENCE", "FINANCE", "PERSON",
     "LOCATION", "INSPIRATION", "QUOTE", "LEARNING", "WISHLIST",
     "RECIPE", "KNOWLEDGE"}

ValidateWith(result, required_keys, valid_types) ==
    IF required_keys \ result.keys # {} THEN "fails"
    ELSE IF ~result.is_list THEN "fails"
    ELSE IF \E i \in DOMAIN result.items :
                \/ ~result.items[i].has_type
                \/ ~result.items[i].has_content
                \/ result.items[i].type \notin valid_types
    THEN "fails"
    ELSE "ok"

_validate_result(result) == ValidateWith(result, ImageRequiredKeys, ImageValidTypes)

_validate_text_result(result) ==
    ValidateWith(result, TextRequiredKeys, TextValidTypes)

\* analyze_image validates the parsed response
ValidateImage ==
    /\ vout = "pending"
    /\ vkind = "image"
    /\ vout' = _validate_result(vresult)
    /\ UNCHANGED <<files, folders, tasks, projects, projects_cache, configured,
                   clock, pc, analysis, idx, today, daily_note_id, counts,
                   content_block, ai_calls, budget, faults, last, bookings,
                   vkind, vresult>>
    /\ UNCHANGED otherVars

\* analyze_text validates the parsed response
ValidateText ==
    /\ vout = "pending"
    /\ vkind = "text"
    /\ vout' = _validate_text_result(vresult)
    /\ UNCHANGED <<files, folders, tasks, projects, projects_cache, configured,
                   clock, pc, analysis, idx, today, daily_note_id, counts,
                   content_block, ai_calls, budget, faults, last, bookings,
                   vkind, vresult>>
    /\ UNCHANGED otherVars

\* ------------------------------------------------------------------------
\* Inputs
\* ------------------------------------------------------------------------
Ma == <<"M", "a">>
ma == <<"m", "a">>
Bo == <<"B", "o">>
Ig == <<"I", "g">>

AllFolders ==
    {"Daily Notes", "2-Areas", "2-Areas/Calendar", "2-Areas/Finances",
     "2-Areas/Clients", "3-Resources", "3-Resources/Ideas",
     "3-Resources/People", "3-Resources/Places", "3-Resources/Inspiration",
     "3-Resources/Quotes", "3-Resources/Learning", "3-Resources/Wishlist"}

Booking(name, handle, status) ==
    [Item("BOOKING", <<"asks for a shoot">>) EXCEPT
        !.name = name, !.platform = Str(Ig), !.handle = handle, !.status = status]

NeedToReplyMa == Booking(Str(Ma), Absent, Str(<<"need-to-reply">>))

\* the items routed by Spec: one of each kind of route, and an item without
\* a route
RouterItems ==
    { [Item("TASK", <<"Call the venue">>) EXCEPT
            !.priority = Str(<<"high">>), !.due_date = Str(<<"2025-03-01">>),
            !.project_hint = Str(<<"W","o","r","k">>)],
      Item("EVENT", <<"Dinner">>),
      Item("FINANCE", <<"Coffee 4.50">>),
      Item("RECIPE", <<"Soup">>),
      NeedToReplyMa }

\* the items routed by SpecFollowUp: a BOOKING item of each status
StatusItems ==
    { Booking(Str(Ma), Absent, st) :
        st \in {Str(<<"need-to-reply">>), Str(<<"waiting">>),
                Str(<<"confirmed">>), Str(<<"cancelled">>), Null, Absent} }

\* the items routed by SpecStatus: one client, the status given, null or
\* absent
LifecycleItems ==
    { Booking(Str(Ma), Absent, st) :
        st \in {Str(<<"need-to-reply">>), Str(<<"confirmed">>), Null, Absent} }

\* the items routed by SpecIdentity: BOOKING items of several identities;
\* two names differ by case only, and a handle is absent, "@" alone, or the
\* fragment "ma" of another client's file name
IdentityItems ==
    { Booking(Str(Ma), Absent, Str(<<"need-to-reply">>)),
      Booking(Str(ma), Absent, Str(<<"need-to-reply">>)),
      Booking(Str(Bo), Absent, Str(<<"need-to-reply">>)),
      Booking(Str(Bo), Str(<<"@">>), Str(<<"need-to-reply">>)),
      Booking(Str(Bo), Str(<<"@", "m", "a">>), Str(<<"need-to-reply">>)),
      Booking(Str(Ma), Str(<<"@", "m", "a">>), Str(<<"need-to-reply">>)) }

FaqFile ==
    [folder |-> ClientsPath, name |-> FaqName,
     content |-> <<"# FAQ", NL, "Portrait session: 100", NL>>]

ValItemShapes ==
    [has_type : BOOLEAN, has_content : BOOLEAN,
     type : {"TASK", "BOOKING", "INSPIRATION", "RECIPE", "KNOWLEDGE", "NOTE"}]

ValKeySets ==
    {ImageRequiredKeys \cup {"daily_snippet"}}
    \cup {ImageRequiredKeys \ {k} : k \in ImageRequiredKeys}

NoResult == [keys |-> {}, is_list |-> FALSE, items |-> <<>>]

\* ------------------------------------------------------------------------
\* Specifications
\* ------------------------------------------------------------------------
InitRun ==
    /\ tasks = <<>>
    /\ projects = <<>>
    /\ projects_cache = NoCache
    /\ clock = 1
    /\ pc = "idle"
    /\ analysis = [items |-> <<>>, given |-> "list"]
    /\ idx = 1
    /\ today = 1
    /\ daily_note_id = 0
    /\ counts = NoCounts
    /\ content_block = <<>>
    /\ ai_calls = 0
    /\ budget = MaxItems
    /\ faults = MaxFaults
    /\ last = NoLast
    /\ bookings = <<>>
    /\ inserted = <<>>

NoResponse ==
    [status |-> 0, body |-> "none", processed |-> 0, errors |-> 0,
     results |-> <<>>, error_details |-> <<>>]

NoContent == [none |-> <<>>]

InitNoAppender ==
    /\ appender = <<>>
    /\ overlapped = FALSE


InitNoDigest ==
    /\ dlabel = "none"
    /\ dpc = "idle"
    /\ dattempt = 0
    /\ dlast_error = ""
    /\ dcontent = NoContent
    /\ dtext = <<>>

InitNoAnalyzer ==
    /\ akind = "image"
    /\ apc = "idle"
    /\ attempt = 0
    /\ responses = <<>>
    /\ aout = "none"

InitNoHandler ==
    /\ inbox = <<>>
    /\ archive = {}
    /\ hpc = "idle"
    /\ listing = <<>>
    /\ batch = <<>>
    /\ bpos = 1
    /\ results = <<>>
    /\ errors = <<>>
    /\ response = NoResponse
    /\ effects = <<>>

InitNoValidation ==
    /\ vkind = "image"
    /\ vresult = NoResult
    /\ vout = "done"

\* the router, on an empty vault whose folders exist, or lack one
Init ==
    /\ InitRun
    /\ InitNoHandler
    /\ InitNoAnalyzer
    /\ InitNoDigest
    /\ InitNoAppender
    /\ InitNoValidation
    /\ files = <<>>
    /\ folders \in {AllFolders, AllFolders \ {"Daily Notes"}}
    /\ configured \in BOOLEAN

RouterPoints == {"daily_lookup", "daily_append", "extra", "tt_post", "bk_write"}

Next ==
    \/ Start(RouterItems, RouterPoints)
    \/ SkipUnknown
    \/ RouteItem(RouterPoints)
    \/ Finish
    \/ Tick

Spec == Init /\ [][Next]_vars

\* identity resolution, on a Clients folder that is missing, empty or holds
\* the FAQ
InitIdentity ==
    /\ InitRun
    /\ InitNoHandler
    /\ InitNoAnalyzer
    /\ InitNoDigest
    /\ InitNoAppender
    /\ InitNoValidation
    /\ \/ files = <<>> /\ folders \in {AllFolders, AllFolders \ {ClientsPath}}
       \/ files = <<FaqFile>> /\ folders = AllFolders
    /\ configured = FALSE

IdentityPoints == {"bk_list", "bk_write"}

NextIdentity ==
    Start(IdentityItems, IdentityPoints) \/ RouteItem(IdentityPoints) \/ Finish

SpecIdentity == InitIdentity /\ [][NextIdentity]_vars

\* the status lifecycle of one client record, over several days
InitStatus ==
    /\ InitRun
    /\ InitNoHandler
    /\ InitNoAnalyzer
    /\ InitNoDigest
    /\ InitNoAppender
    /\ InitNoValidation
    /\ files = <<>>
    /\ folders = AllFolders
    /\ configured = FALSE

StatusPoints == {"bk_write", "bk_fm"}

NextStatus ==
    \/ Start(LifecycleItems, StatusPoints)
    \/ RouteItem(StatusPoints)
    \/ Finish
    \/ Tick

SpecStatus == InitStatus /\ [][NextStatus]_vars

\* follow-up tasks of bookings, with the task manager configured
InitFollowUp ==
    /\ InitRun
    /\ InitNoHandler
    /\ InitNoAnalyzer
    /\ InitNoDigest
    /\ InitNoAppender
    /\ InitNoValidation
    /\ files = <<>>
    /\ folders = AllFolders
    /\ configured = TRUE

FollowUpPoints == {"bk_list", "bk_write", "tt_post"}

NextFollowUp ==
    Start(StatusItems, FollowUpPoints) \/ RouteItem(FollowUpPoints) \/ Finish

SpecFollowUp == InitFollowUp /\ [][NextFollowUp]_vars

\* the validators, on one parsed response
InitValidate ==
    /\ InitRun
    /\ InitNoHandler
    /\ InitNoAnalyzer
    /\ InitNoDigest
    /\ InitNoAppender
    /\ files = <<>>
    /\ folders = AllFolders
    /\ configured = TRUE
    /\ vkind \in {"image", "text"}
    /\ vout = "pending"
    /\ \E n \in 0..MaxValItems :
          vresult \in [keys : ValKeySets, is_list : BOOLEAN,
                       items : [1..n -> ValItemShapes]]

NextValidate == ValidateImage \/ ValidateText

SpecValidate == InitValidate /\ [][NextValidate]_vars

\* ------------------------------------------------------------------------
\* Reading a client record
\* ------------------------------------------------------------------------
AtLineStart(content, i) == i = 1 \/ content[i - 1] = NL

HasLine(content, key) ==
    \E i \in DOMAIN content : content[i] = key /\ AtLineStart(content, i)

\* the text that follows key on the first line that starts with key
LineValue(content, key) ==
    LET at == CHOOSE i \in DOMAIN content :
                  /\ content[i] = key /\ AtLineStart(content, i)
                  /\ \A j \in 1..(i - 1) :
                        ~(content[j] = key /\ AtLineStart(content, j))
    IN  SubSeq(content, at + 1, LineEnd(content, at))

\* the positions of the log entries' headings
EntryHeads(content) ==
    {i \in DOMAIN content : content[i] = "### " /\ AtLineStart(content, i)}

Last(S) == CHOOSE i \in S : \A j \in S : j <= i

\* the date and the status of the last log entry
LastEntryDate(content) == content[Last(EntryHeads(content)) + 1]

LastEntryStatus(content) ==
    LET at == Last({i \in DOMAIN content : content[i] = " **Status:** "})
    IN  SubSeq(content, at + 1, LineEnd(content, at))

IsClientRecord(f) ==
    /\ f.folder = ClientsPath
    /\ HasLine(f.content, "status: ")
    /\ EntryHeads(f.content) # {}

\* ------------------------------------------------------------------------
\* C1
\* ------------------------------------------------------------------------
\* C1: the front-matter status and last_updated of every client record
\* equal the status and the date of the last log entry appended to it.
C1_FrontMatterReflectsLastEntry ==
    \A i \in DOMAIN files :
        IsClientRecord(files[i]) =>
            /\ LineValue(files[i].content, "status: ")
                    = LastEntryStatus(files[i].content)
            /\ LineValue(files[i].content, "last_updated: ")
                    = <<LastEntryDate(files[i].content)>>

\* ------------------------------------------------------------------------
\* C2 - C4: identity resolution, over the history of handled bookings
\* ------------------------------------------------------------------------
NameOf(b) == Or(b.item.name, UnknownClient)
PlatformOf(b) == Or(b.item.platform, UnknownPlatform)
HandleOf(b) == Or(b.item.handle, <<>>)

\* slug(name)-slug(platform).md
CanonicalName(b) ==
    _slugify(NameOf(b)) \o <<"-">> \o _slugify(PlatformOf(b)) \o <<".", "m", "d">>

\* the files of the Clients folder before the booking was handled
ClientFilesBefore(b) ==
    {i \in DOMAIN b.before : b.before[i].folder = ClientsPath}

HandleSlug(b) == _slugify(LStripSet(HandleOf(b), {"@"}))

\* no file name is the canonical one, and none contains the handle's slug
NoMatchingFile(b) ==
    /\ \A i \in ClientFilesBefore(b) :
            Lower(b.before[i].name) # Lower(CanonicalName(b))
    /\ \/ HandleOf(b) = <<>>
       \/ \A i \in ClientFilesBefore(b) :
            ~IsSubstring(HandleSlug(b), Lower(b.before[i].name))

\* as NoMatchingFile, a handle of empty slug identifying no file
NoFileIdentified(b) ==
    /\ \A i \in ClientFilesBefore(b) :
            Lower(b.before[i].name) # Lower(CanonicalName(b))
    /\ \/ HandleSlug(b) = <<>>
       \/ \A i \in ClientFilesBefore(b) :
            ~IsSubstring(HandleSlug(b), Lower(b.before[i].name))

CreatedOneFile(b) ==
    /\ b.created
    /\ Len(b.after) = Len(b.before) + 1
    /\ b.file = Len(b.after)
    /\ \A i \in DOMAIN b.before : b.after[i] = b.before[i]

AddedOneEntry(b) ==
    /\ ~b.created
    /\ Len(b.after) = Len(b.before)
    /\ b.file \in DOMAIN b.before
    /\ Cardinality(EntryHeads(b.after[b.file].content))
            = Cardinality(EntryHeads(b.before[b.file].content)) + 1

SameIdentity(a, b) ==
    /\ a.item.name = b.item.name
    /\ a.item.platform = b.item.platform
    /\ a.item.handle = b.item.handle

\* C2: of two handled BOOKING items with the same name, platform and handle,
\* the first finding no matching file, the first creates exactly one file,
\* named slug(name)-slug(platform).md, and the second resolves to that file,
\* adds exactly one log entry to it and creates no file.
C2_IdentityResolutionIdempotent ==
    \A i, j \in DOMAIN bookings :
        ( /\ i < j
          /\ SameIdentity(bookings[i], bookings[j])
          /\ ~bookings[i].raised /\ ~bookings[j].raised
          /\ NoMatchingFile(bookings[i]) )
        => /\ CreatedOneFile(bookings[i])
           /\ bookings[i].after[bookings[i].file].name = CanonicalName(bookings[i])
           /\ bookings[j].file = bookings[i].file
           /\ AddedOneEntry(bookings[j])

C2_Witness ==
    \E i, j \in DOMAIN bookings :
        /\ i < j
        /\ SameIdentity(bookings[i], bookings[j])
        /\ ~bookings[i].raised /\ ~bookings[j].raised
        /\ NoMatchingFile(bookings[i])
        /\ bookings[j].file = bookings[i].file
        /\ HandleOf(bookings[i]) # <<>>

\* C3: a BOOKING item that no existing file name matches, by the canonical
\* file name or by a non-empty handle slug, creates a new file and leaves
\* every existing file as it was.
C3_NoMatchMeansNewClient ==
    \A k \in DOMAIN bookings :
        (~bookings[k].raised /\ NoFileIdentified(bookings[k]))
        => CreatedOneFile(bookings[k])

\* C4: over bookings that carry no handle, items of different (client name,
\* platform) pairs are written to different files, and items of the same
\* pair to the same file.
NoHandles == \A k \in DOMAIN bookings : HandleOf(bookings[k]) = <<>>

Written == {k \in DOMAIN bookings : ~bookings[k].raised}

SamePair(a, b) == NameOf(a) = NameOf(b) /\ PlatformOf(a) = PlatformOf(b)

C4_OneFilePerPair ==
    NoHandles =>
        \A i, j \in Written :
            SamePair(bookings[i], bookings[j])
                <=> bookings[i].file = bookings[j].file

\* C4, amended: over bookings that carry no handle, items whose canonical
\* file names differ, compared without case, are written to different
\* files, and items of the same pair to the same file.
C4_OneFilePerCanonicalName ==
    NoHandles =>
        \A i, j \in Written :
            /\ Lower(CanonicalName(bookings[i])) # Lower(CanonicalName(bookings[j]))
                    => bookings[i].file # bookings[j].file
            /\ SamePair(bookings[i], bookings[j])
                    => bookings[i].file = bookings[j].file

C4_Witness ==
    /\ NoHandles
    /\ \E i, j \in Written :
          /\ Lower(CanonicalName(bookings[i])) # Lower(CanonicalName(bookings[j]))
          /\ bookings[i].file # bookings[j].file
          /\ bookings[i].created /\ bookings[j].created

\* ------------------------------------------------------------------------
\* C5, C9, C10: the router
\* ------------------------------------------------------------------------
TypesOf(its) == {its[i].type : i \in DOMAIN its}

\* C5: a failing effect of an item prevents none of that item's other
\* effects, and when route_items is over every item of a known type has
\* been routed and counted.
C5_FailuresAreIsolated ==
    /\ last.attempted = last.applicable
    /\ pc \in {"done", "raised"} =>
            \A t \in TypesOf(analysis.items) \cap KnownTypes :
                /\ t \in DOMAIN counts
                /\ counts[t] = CountType(analysis.items, t)

\* the dates a fragment carries: the first column of a FINANCE row and the
\* Added line of a profile card
FragmentDates(block) ==
    {block[i + 1] : i \in {k \in 1..(Len(block) - 1) :
                                block[k] \in {"| ", "- **Added:** "}}}

\* C9: every date the formatter writes into a fragment is the target date
\* given to the router.
C9_FragmentDatesAreTargetDate ==
    \A d \in FragmentDates(content_block) : d = Iso(today)

\* C10: an item whose type has no route causes no write to a vault file and
\* no task, and the keys of the returned count map are exactly the known
\* types that occur among the items.
C10_UnknownTypesSkipped ==
    /\ [](pc = "done" =>
            DOMAIN counts = TypesOf(analysis.items) \cap KnownTypes)
    /\ [][(/\ pc = "routing"
           /\ idx <= Len(analysis.items)
           /\ analysis.items[idx].type \notin KnownTypes
           /\ idx' = idx + 1)
          => (/\ files' = files
              /\ tasks' = tasks
              /\ projects' = projects
              /\ counts' = counts)]_vars

C10_Witness ==
    /\ pc = "done"
    /\ TypesOf(analysis.items) \cap KnownTypes # {}
    /\ TypesOf(analysis.items) \ KnownTypes # {}
    /\ files # <<>>

\* ------------------------------------------------------------------------
\* C6, C7: the follow-up task of a booking
\* ------------------------------------------------------------------------
LastBooking == bookings[Len(bookings)]

\* C6: a routed BOOKING item has exactly one follow-up task enqueued,
\* whether or not its client file was written, and the written client file
\* stays as the booking left it when the follow-up fails.
C6_FollowUpIndependentOfBooking ==
    last.type = "BOOKING" =>
        /\ Len(last.follow_up) = 1
        /\ ~LastBooking.raised => files = LastBooking.after

TitlePrefixFor(status) ==
    CASE status = <<"need-to-reply">> -> "Reply to "
      [] status = <<"waiting">> -> "Follow up with "
      [] status = <<"confirmed">> -> "Prepare shoot for "
      [] OTHER -> "Booking: "

PriorityFor(status) ==
    IF status \in {<<"need-to-reply">>, <<"confirmed">>}
    THEN <<"high">> ELSE <<"medium">>

\* C7: the title and the priority of a booking's follow-up task are those
\* of the status recorded in the log entry of that booking.
C7_FollowUpUsesLoggedStatus ==
    (last.type = "BOOKING" /\ last.follow_up # <<>>) =>
        LET logged == LastEntryStatus(files[LastBooking.file].content)
            task == last.follow_up[1]
        IN  /\ task.content.val[1] = TitlePrefixFor(logged)
            /\ task.priority = Str(PriorityFor(logged))

\* ------------------------------------------------------------------------
\* C8: the validators
\* ------------------------------------------------------------------------
AllowedForImage == KnownTypes
AllowedForText == (KnownTypes \ {"INSPIRATION", "BOOKING"}) \cup {"RECIPE", "KNOWLEDGE"}

WellFormed(kind, result) ==
    /\ (IF kind = "image" THEN ImageRequiredKeys ELSE TextRequiredKeys)
            \subseteq result.keys
    /\ result.is_list
    /\ \A i \in DOMAIN result.items :
          /\ result.items[i].has_type
          /\ result.items[i].has_content
          /\ result.items[i].type \in
                (IF kind = "image" THEN AllowedForImage ELSE AllowedForText)

\* C8: validation succeeds exactly when the required keys are present,
\* items is a list, every item has type and content and every type is one
\* of the input kind's: no RECIPE or KNOWLEDGE for an image, no INSPIRATION
\* or BOOKING for a text.
C8_ValidatesExactly ==
    vout \in {"ok", "fails"} => (vout = "ok" <=> WellFormed(vkind, vresult))

\* ------------------------------------------------------------------------
\* C11: the front-matter rewrite
\* ------------------------------------------------------------------------
\* a summary of two lines, the second of which reads like a status line
TwoLineSummary == <<"asks about the order", NL, "status: ", "open">>

\* the items routed by SpecRewrite: one client; the status is a word or the
\* empty string, the summary has one line or two
RewriteItems ==
    { [Booking(Str(Ma), Absent, st) EXCEPT !.content = Str(c)] :
        st \in {Str(<<"confirmed">>), Str(<<>>)},
        c \in {<<"asks for a shoot">>, TwoLineSummary} }

\* the client file an earlier invocation created for the first booking
EarlierClientFile ==
    handle_booking(<<>>, AllFolders, 0,
        [NeedToReplyMa EXCEPT !.content = Str(TwoLineSummary)], 1, {}).files

\* updates of one client record, on a vault that is empty or has the record
InitRewrite ==
    /\ InitRun
    /\ InitNoHandler
    /\ InitNoAnalyzer
    /\ InitNoDigest
    /\ InitNoAppender
    /\ InitNoValidation
    /\ files \in {<<>>, EarlierClientFile}
    /\ folders = AllFolders
    /\ configured = FALSE

RewritePoints == {"bk_fm"}

NextRewrite ==
    Start(RewriteItems, RewritePoints) \/ RouteItem(RewritePoints) \/ Finish

SpecRewrite == InitRewrite /\ [][NextRewrite]_vars

\* the position of the "---" that closes the front matter
FrontMatterEnd(content) ==
    CHOOSE i \in 2..Len(content) :
        /\ content[i] = "---" /\ AtLineStart(content, i)
        /\ \A j \in 2..(i - 1) : ~(content[j] = "---" /\ AtLineStart(content, j))

HasFrontMatter(content) ==
    /\ content # <<>>
    /\ content[1] = "---"
    /\ \E i \in 2..Len(content) : content[i] = "---" /\ AtLineStart(content, i)

\* the first position of the line that holds position k
LineStart(content, k) ==
    CHOOSE i \in 1..k :
        AtLineStart(content, i) /\ \A j \in (i + 1)..k : content[j - 1] # NL

\* the front matter without its status and last_updated lines
OtherFrontMatter(content) ==
    LET keep == {k \in 1..FrontMatterEnd(content) :
                    content[LineStart(content, k)]
                        \notin {"status: ", "last_updated: "}}
        Nth(n) == CHOOSE k \in keep : Cardinality({j \in keep : j <= k}) = n
    IN  [n \in 1..Cardinality(keep) |-> content[Nth(n)]]

BodyOf(content) ==
    SubSeq(content, FrontMatterEnd(content) + 1, Len(content))

IsPrefix(a, b) == Len(a) <= Len(b) /\ SubSeq(b, 1, Len(a)) = a

\* C11: an update of an existing client file leaves every front-matter line
\* other than status and last_updated, and the body the file had, as they
\* were; the update adds its log entry after that body.
C11_RewriteTouchesOnlyStatusLines ==
    \A k \in DOMAIN bookings :
        LET b == bookings[k]
        IN  (/\ ~b.raised /\ ~b.created
             /\ HasFrontMatter(b.before[b.file].content))
            => /\ HasFrontMatter(b.after[b.file].content)
               /\ OtherFrontMatter(b.after[b.file].content)
                    = OtherFrontMatter(b.before[b.file].content)
               /\ IsPrefix(BodyOf(b.before[b.file].content),
                           BodyOf(b.after[b.file].content))

\* ------------------------------------------------------------------------
\* C12: append_to_md under a heading
\* ------------------------------------------------------------------------
\* fragments of one line, of two lines, and one that quotes a heading
Fragments ==
    { <<"- [ ] ", "Call the venue">>,
      <<"- ", "Dinner", NL, "  - _Source: ", Source, "_">>,
      <<"- ", "see ", "## Tasks">> }

AppendHeadings == {<<"## Tasks">>, <<"## Diary">>}

\* a daily note as find_or_create_daily_note creates it
InitAppend ==
    /\ InitRun
    /\ InitNoHandler
    /\ InitNoAnalyzer
    /\ InitNoDigest
    /\ InitNoAppender
    /\ InitNoValidation
    /\ files = <<[folder |-> DAILY_NOTES_FOLDER, name |-> <<Iso(1), ".md">>,
                  content |-> DAILY_NOTE_TEMPLATE(1)]>>
    /\ folders = AllFolders
    /\ configured = FALSE

\* drive_ops.append_to_md(daily_note_id, fragment, under_heading)
AppendUnderHeading(Headings, Frags) ==
    /\ Len(inserted) < MaxAppends
    /\ \E h \in Headings, f \in Frags :
          /\ files' = append_to_md(files, 1, f, h)
          /\ inserted' = Append(inserted, [heading |-> h, fragment |-> f])
    /\ UNCHANGED <<folders, tasks, projects, projects_cache, configured, clock,
                   pc, analysis, idx, today, daily_note_id, counts,
                   content_block, ai_calls, budget, faults, last, bookings>>
    /\ UNCHANGED validatorVars
    /\ UNCHANGED handlerVars
    /\ UNCHANGED analyzerVars
    /\ UNCHANGED digestVars
    /\ UNCHANGED concVars

NextAppend == AppendUnderHeading(AppendHeadings, Fragments)

SpecAppend == InitAppend /\ [][NextAppend]_vars

\* the fragments inserted under heading h, the last inserted first, each
\* followed by the newline append_to_md adds
RECURSIVE MostRecentFirst(_, _)
MostRecentFirst(log, h) ==
    IF log = <<>> THEN <<>>
    ELSE (IF log[Len(log)].heading = h
          THEN log[Len(log)].fragment \o <<NL>> ELSE <<>>)
         \o MostRecentFirst(SubSeq(log, 1, Len(log) - 1), h)

\* the content that follows the line of heading h
AfterHeadingLine(content, h) ==
    SubSeq(content, IndexOf(h, content) + Len(h) + 1, Len(content))

Price == <<"How much is a session?">>

\* the items routed by SpecReply: the questions are absent, null, an empty
\* list or a list of one question
ReplyItems ==
    { [NeedToReplyMa EXCEPT !.questions = q] :
        q \in {Absent, Null, Str(<<>>), Str(<<Price>>)} }

\* the FAQ with no content, and with blank content
EmptyFaq == [FaqFile EXCEPT !.content = <<>>]
BlankFaq == [FaqFile EXCEPT !.content = <<" ", NL>>]

\* bookings on a vault whose FAQ is missing, empty, blank or written
InitReply ==
    /\ InitRun
    /\ InitNoHandler
    /\ InitNoAnalyzer
    /\ InitNoDigest
    /\ InitNoAppender
    /\ InitNoValidation
    /\ files \in {<<>>, <<FaqFile>>, <<EmptyFaq>>, <<BlankFaq>>}
    /\ folders = AllFolders
    /\ configured = FALSE

ReplyPoints == {"bk_faq", "bk_ai"}

NextReply ==
    Start(ReplyItems, ReplyPoints) \/ RouteItem(ReplyPoints) \/ Finish

SpecReply == InitReply /\ [][NextReply]_vars

\* C13: a BOOKING item whose questions are absent or empty makes no
\* reply-synthesis call, whatever the FAQ holds.
C13_NoQuestionsNoReplyCall ==
    \A k \in DOMAIN bookings :
        Or(bookings[k].item.questions, <<>>) = <<>> => bookings[k].ai_calls = 0

C13_Witness ==
    \E i, j \in DOMAIN bookings :
        /\ Or(bookings[i].item.questions, <<>>) = <<>>
        /\ Strip(bookings[i].faq) # <<>>
        /\ ~bookings[i].raised
        /\ bookings[j].ai_calls = 1

\* the number of suggested-reply blocks of file i of fs, 0 when fs has no
\* such file
ReplyBlocks(fs, i) ==
    IF i \notin DOMAIN fs THEN 0
    ELSE Cardinality({k \in DOMAIN fs[i].content :
            fs[i].content[k] \in {"## Suggested Reply", "#### Suggested Reply"}})

\* C14: with the FAQ missing, unreadable or empty, blank included, a
\* BOOKING item makes no reply-synthesis call and its log entry has no
\* suggested-reply block.
C14_NoFaqNoReply ==
    \A k \in DOMAIN bookings :
        LET b == bookings[k]
        IN  (~b.raised /\ Strip(b.faq) = <<>>)
            => /\ b.ai_calls = 0
               /\ ReplyBlocks(b.after, b.file) = ReplyBlocks(b.before, b.file)

\* ------------------------------------------------------------------------
\* C15: the effects of a TASK item
\* ------------------------------------------------------------------------
\* the items routed by SpecTask: TASK items of every priority, with and
\* without a due date, and an item of another type
TaskItems ==
    { [Item("TASK", <<"Call the venue">>) EXCEPT !.priority = p, !.due_date = d] :
        p \in {Str(<<"high">>), Str(<<"medium">>), Str(<<"low">>), Absent},
        d \in {Absent, Str(<<"2025-03-05">>)} }
    \cup {Item("EVENT", <<"Dinner">>)}

\* routing without failures, the task manager configured or not
InitTask ==
    /\ InitRun
    /\ InitNoHandler
    /\ InitNoAnalyzer
    /\ InitNoDigest
    /\ InitNoAppender
    /\ InitNoValidation
    /\ files = <<>>
    /\ folders = AllFolders
    /\ configured \in BOOLEAN

NextTask == Start(TaskItems, {}) \/ RouteItem({}) \/ Finish

SpecTask == InitTask /\ [][NextTask]_vars

\* the checklist line of a TASK item: glyph by priority, due-date marker
ChecklistLine(item) ==
    LET p == GetDefault(item.priority, <<"medium">>).val
        glyph == CASE p = <<"high">> -> <<"(high)">>
                   [] p = <<"medium">> -> <<"(medium)">>
                   [] p = <<"low">> -> <<"(low)">>
                   [] OTHER -> <<>>
    IN  <<"- [ ] ">> \o glyph \o <<" ">> \o item.content.val
            \o (IF item.due_date.tag = "str"
                THEN <<" due ">> \o item.due_date.val ELSE <<>>)
            \o <<NL>>

PriorityLevel(item) ==
    IF item.priority.tag # "str" THEN 0
    ELSE CASE item.priority.val = <<"high">> -> 5
           [] item.priority.val = <<"medium">> -> 3
           [] item.priority.val = <<"low">> -> 1
           [] OTHER -> 0

Checkboxes(content) ==
    Cardinality({k \in DOMAIN content : content[k] = "- [ ] "})

\* C15: routing a TASK item puts one checklist line directly under the
\* daily note's "## Tasks" heading and, the task manager being configured,
\* creates one task of the priority level of the item; an item of another
\* type creates no task.
C15_TaskEffects ==
    [][(pc = "routing" /\ idx <= Len(analysis.items) /\ idx' = idx + 1)
       => LET item == analysis.items[idx]
              note == files[daily_note_id].content
              note2 == files'[daily_note_id].content
          IN  IF item.type = "TASK"
              THEN /\ IsPrefix(ChecklistLine(item),
                               AfterHeadingLine(note2, <<"## Tasks">>))
                   /\ Checkboxes(note2) = Checkboxes(note) + 1
                   /\ configured =>
                        /\ Len(tasks') = Len(tasks) + 1
                        /\ SubSeq(tasks', 1, Len(tasks)) = tasks
                        /\ tasks'[Len(tasks')].priority = PriorityLevel(item)
                        /\ tasks'[Len(tasks')].title = item.content.val
                   /\ ~configured => tasks' = tasks
              ELSE tasks' = tasks]_vars

C15_Witness ==
    /\ pc = "done"
    /\ Len(tasks) = 2
    /\ tasks[1].priority = 5
    /\ tasks[2].priority = 0
    /\ Checkboxes(files[daily_note_id].content) = 2

\* ------------------------------------------------------------------------
\* C16, C17: what route_items returns
\* ------------------------------------------------------------------------
\* C16: route_items of an analysis whose items are empty or missing returns
\* the empty count map and writes nothing: no file, folder, task or project
\* is created or changed.
C16_EmptyItemsNoWrites ==
    /\ [](pc = "done" /\ analysis.items = <<>> => counts = NoCounts)
    /\ [][(pc # "routing" /\ pc' = "done" /\ analysis'.items = <<>>)
          => (/\ files' = files
              /\ folders' = folders
              /\ tasks' = tasks
              /\ projects' = projects
              /\ ai_calls' = ai_calls)]_vars

C16_Witness ==
    /\ pc = "done"
    /\ analysis.items = <<>>
    /\ analysis.given = "absent"
    /\ files # <<>>
    /\ budget > 0

RECURSIVE SumOver(_, _)
SumOver(cnt, keys) ==
    IF keys = {} THEN 0
    ELSE LET k == CHOOSE x \in keys : TRUE
         IN  cnt[k] + SumOver(cnt, keys \ {k})

BATCH_SIZE == 15

\* the steps of _process_single that may raise
ProcessSteps == {"download", "analyze", "route", "record", "rename", "move"}

\* the listing without file f
Without(list, f) == SelectSeq(list, LAMBDA x : x # f)

StopAtFailure(b, pos, failed) == IF failed THEN Len(b) + 1 ELSE pos + 1

\* the for loop over batch goes on to the next input after a result and
\* after a caught exception alike
NextInput(b, pos, failed) == pos + 1

WholeListing(list) == list

StatusAlwaysOk(listed) == 200

\* the status code returned: 500 from the outer except, which the failing
\* listing reaches, and 200 from the two other returns
HandlerStatus(listed) == IF listed THEN 200 ELSE 500

\* drive_ops.list_inbox_files: the files whose parent is the inbox folder
list_inbox_files(ib) == ib

\* batch = files[:BATCH_SIZE]
BatchOf(list) == Take(list, BATCH_SIZE)

\* _handle_process_screenshots up to the for loop: the listing of the inbox
\* and the batch; a failing listing returns 500, an empty one 200 with a
\* message
Invoke(Points) ==
    /\ hpc \in {"idle", "returned"}
    /\ \E fail \in {FALSE} \cup {"list" \in Points} :
          /\ fail => faults > 0
          /\ faults' = IF fail THEN faults - 1 ELSE faults
          /\ results' = <<>>
          /\ errors' = <<>>
          /\ bpos' = 1
          /\ IF fail
             THEN /\ hpc' = "returned"
                  /\ response' = [NoResponse EXCEPT !.status = HandlerStatus(FALSE),
                                                !.body = "error"]
                  /\ listing' = <<>>
                  /\ batch' = <<>>
             ELSE IF list_inbox_files(inbox) = <<>>
             THEN /\ hpc' = "returned"
                  /\ response' = [NoResponse EXCEPT !.status = HandlerStatus(TRUE),
                                                !.body = "message"]
                  /\ listing' = <<>>
                  /\ batch' = <<>>
             ELSE /\ hpc' = "loop"
                  /\ response' = NoResponse
                  /\ listing' = list_inbox_files(inbox)
                  /\ batch' = BatchOf(list_inbox_files(inbox))
    /\ UNCHANGED <<inbox, archive, effects, inserted>>
    /\ UNCHANGED analyzerVars
    /\ UNCHANGED digestVars
    /\ UNCHANGED concVars
    /\ UNCHANGED <<files, folders, tasks, projects, projects_cache, configured,
                   clock, pc, analysis, idx, today, daily_note_id, counts,
                   content_block, ai_calls, budget, last, bookings>>
    /\ UNCHANGED validatorVars

\* the steps of _process_single, in the order it takes them
StepOrder == <<"download", "analyze", "route", "record", "rename", "move">>

\* the steps that write: the vault writes of route_items, the analysis
\* record, the rename and the move
DurableSteps == <<"route", "record", "rename", "move">>

StepIndex(step) ==
    IF step = "none" THEN Len(StepOrder) + 1
    ELSE CHOOSE i \in DOMAIN StepOrder : StepOrder[i] = step

RolledBack(at) == IF at = "none" THEN DurableSteps ELSE <<>>

\* the writes _process_single has made when it raises at step at ("none":
\* it returns); nothing undoes them
AppliedBefore(at) ==
    SelectSeq(DurableSteps, LAMBDA st : StepIndex(st) < StepIndex(at))

\* one iteration of the for loop: _process_single of the input, which ends
\* with the file moved to the archive, or raises at one of its steps and
\* leaves the file in the inbox
ProcessSingle(Points) ==
    /\ hpc = "loop"
    /\ bpos <= Len(batch)
    /\ \E at \in {"none"} \cup (ProcessSteps \cap Points) :
          LET file == batch[bpos]
              failed == at # "none"
          IN  /\ failed => faults > 0
              /\ faults' = IF failed THEN faults - 1 ELSE faults
              /\ inbox' = IF failed THEN inbox ELSE Without(inbox, file)
              /\ archive' = IF failed THEN archive ELSE archive \cup {file}
              /\ results' = IF failed THEN results ELSE Append(results, file)
              /\ errors' = IF failed
                           THEN Append(errors, [file |-> file, at |-> at])
                           ELSE errors
              /\ bpos' = NextInput(batch, bpos, failed)
              /\ effects' = effects
                    \o [i \in DOMAIN AppliedBefore(at) |->
                          [file |-> file, step |-> AppliedBefore(at)[i]]]
    /\ UNCHANGED <<hpc, listing, batch, response, inserted>>
    /\ UNCHANGED analyzerVars
    /\ UNCHANGED digestVars
    /\ UNCHANGED concVars
    /\ UNCHANGED <<files, folders, tasks, projects, projects_cache, configured,
                   clock, pc, analysis, idx, today, daily_note_id, counts,
                   content_block, ai_calls, budget, last, bookings>>
    /\ UNCHANGED validatorVars

\* the notification, whose failure is caught, and the summary returned after
\* the loop
Summarize(Points) ==
    /\ hpc = "loop"
    /\ bpos > Len(batch)
    /\ \E notify_fails \in {FALSE} \cup {"notify" \in Points /\ results # <<>>} :
          /\ notify_fails => faults > 0
          /\ faults' = IF notify_fails THEN faults - 1 ELSE faults
    /\ hpc' = "returned"
    /\ response' = [status |-> HandlerStatus(TRUE), body |-> "summary",
                    processed |-> Len(results), errors |-> Len(errors),
                    results |-> results, error_details |-> errors]
    /\ UNCHANGED <<inbox, archive, listing, batch, bpos, results, errors,
                   effects, inserted>>
    /\ UNCHANGED analyzerVars
    /\ UNCHANGED digestVars
    /\ UNCHANGED concVars
    /\ UNCHANGED <<files, folders, tasks, projects, projects_cache, configured,
                   clock, pc, analysis, idx, today, daily_note_id, counts,
                   content_block, ai_calls, budget, last, bookings>>
    /\ UNCHANGED validatorVars

\* an inbox that is empty, holds one input, a full batch, or more
InboxSizes == {0, 1, BATCH_SIZE, MaxInbox}

InitInbox ==
    /\ InitRun
    /\ InitNoValidation
    /\ InitNoAnalyzer
    /\ InitNoDigest
    /\ InitNoAppender
    /\ files = <<>>
    /\ folders = AllFolders
    /\ configured = FALSE
    /\ \E n \in InboxSizes : inbox = [i \in 1..n |-> i]
    /\ archive = {}
    /\ hpc = "idle"
    /\ listing = <<>>
    /\ batch = <<>>
    /\ bpos = 1
    /\ results = <<>>
    /\ errors = <<>>
    /\ response = NoResponse
    /\ effects = <<>>

InboxPoints == {"list", "analyze", "record", "move", "notify"}

NextInbox == Invoke(InboxPoints) \/ ProcessSingle(InboxPoints)
             \/ Summarize(InboxPoints)

\* the scheduler invokes the handler again and again, and an invocation runs
\* to its end
SpecInbox == InitInbox /\ [][NextInbox]_vars /\ WF_vars(NextInbox)

ErrorFiles == {errors[i].file : i \in DOMAIN errors}

\* C18: a failing input does not abort the batch: the inputs of the batch
\* are attempted in listing order, each ends in exactly one of results and
\* errors, and the invocation returns 200 with both counts and the error
\* messages.
C18_FailuresDoNotAbortBatch ==
    /\ hpc = "loop" =>
          /\ Range(results) \cup ErrorFiles = Range(SubSeq(batch, 1, bpos - 1))
          /\ Range(results) \cap ErrorFiles = {}
          /\ Len(results) + Len(errors) = bpos - 1
    /\ (hpc = "returned" /\ batch # <<>>) =>
          /\ Range(results) \cup ErrorFiles = Range(batch)
          /\ Range(results) \cap ErrorFiles = {}
          /\ response.status = 200
          /\ response.processed = Len(results)
          /\ response.errors = Len(errors)
          /\ response.processed + response.errors = Len(batch)
          /\ response.error_details = errors

C18_Witness ==
    /\ hpc = "returned"
    /\ \E i, j \in DOMAIN batch :
          /\ i < j
          /\ batch[i] \in ErrorFiles
          /\ batch[j] \in Range(results)

\* the inputs of the listing that lie beyond the cap
BeyondCap == {listing[i] : i \in (BATCH_SIZE + 1)..Len(listing)}

CapRespected ==
    hpc \in {"loop", "returned"} =>
        /\ Len(batch) <= BATCH_SIZE
        /\ batch = SubSeq(listing, 1, Len(batch))
        /\ Len(batch) = BATCH_SIZE \/ batch = listing
        /\ \A f \in BeyondCap :
              /\ f \in Range(inbox)
              /\ f \notin archive
              /\ f \notin Range(results) \cup ErrorFiles

\* C19: an invocation processes at most BATCH_SIZE inputs, the first of the
\* inbox listing; the inputs beyond the cap are untouched and still in the
\* inbox, and with repeated invocations the inbox is emptied once no step
\* fails any more (and so in every run without a failure).
C19_CapAndEventualProcessing ==
    /\ []CapRespected
    /\ (faults = 0) ~> (inbox = <<>>)
    /\ [](faults = MaxFaults) => <>(inbox = <<>>)

C19_Witness ==
    /\ inbox = <<>>
    /\ Cardinality(archive) > BATCH_SIZE
    /\ errors = <<>>
    /\ faults = MaxFaults

\* ------------------------------------------------------------------------
\* gemini_analyzer.py: analyze_image and analyze_text.  A response of the
\* model is its text: not JSON, a code fence alone on one line, a JSON array,
\* or a JSON object, whose content is result.
\* ------------------------------------------------------------------------
ATTEMPTS == 3

GoodResult ==
    [keys |-> ImageRequiredKeys \cup {"daily_snippet"}, is_list |-> TRUE,
     items |-> <<[has_type |-> TRUE, has_content |-> TRUE, type |-> "TASK"]>>]

ModelResponses ==
    { [shape |-> "object", result |-> GoodResult],
      [shape |-> "object",
       result |-> [GoodResult EXCEPT !.keys = ImageRequiredKeys \ {"items"}]],
      [shape |-> "object",
       result |-> [GoodResult EXCEPT !.items[1].type = "NOTE"]],
      [shape |-> "not_json", result |-> NoResult],
      [shape |-> "fence", result |-> NoResult],
      [shape |-> "array", result |-> NoResult] }

ValidatorOf(kind, result) ==
    IF kind = "image" THEN _validate_result(result)
    ELSE _validate_text_result(result)

\* the body of the try block on one response: "ok", or the exception raised
\* by raw_text.split("\n", 1)[1], by json.loads, or by the validator
\* (result.keys() of a list, or one of its ValueErrors)
Outcome(kind, resp) ==
    IF resp.shape = "fence" THEN "IndexError"
    ELSE IF resp.shape = "not_json" THEN "JSONDecodeError"
    ELSE IF resp.shape = "array" THEN "AttributeError"
    ELSE IF ValidatorOf(kind, resp.result) = "ok" THEN "ok"
    ELSE "ValueError"

\* except (json.JSONDecodeError, KeyError, ValueError)
Retried == {"JSONDecodeError", "KeyError", "ValueError"}

\* analyze_image or analyze_text is called
Analyze ==
    /\ apc \in {"idle", "returned", "raised"}
    /\ akind' \in {"image", "text"}
    /\ apc' = "try"
    /\ attempt' = 0
    /\ responses' = <<>>
    /\ aout' = "none"
    /\ UNCHANGED <<routerVars, validatorVars, inserted, handlerVars,
                   digestVars, concVars>>

\* one pass of the for loop: a model call and its response
Attempt ==
    /\ apc = "try"
    /\ attempt < ATTEMPTS
    /\ \E resp \in ModelResponses :
          LET out == Outcome(akind, resp)
          IN  /\ responses' = Append(responses, resp)
              /\ aout' = out
              /\ apc' = IF out = "ok" THEN "returned"
                        ELSE IF out \in Retried THEN "try"
                        ELSE "raised"
              /\ attempt' = IF out \in Retried THEN attempt + 1 ELSE attempt
    /\ UNCHANGED <<akind, routerVars, validatorVars, inserted, handlerVars,
                   digestVars, concVars>>

\* the raise after the loop
GiveUp ==
    /\ apc = "try"
    /\ attempt = ATTEMPTS
    /\ apc' = "raised"
    /\ aout' = "ValueError"
    /\ UNCHANGED <<akind, attempt, responses, routerVars, validatorVars,
                   inserted, handlerVars,
                   digestVars, concVars>>

InitAnalyze ==
    /\ InitRun
    /\ InitNoValidation
    /\ InitNoHandler
    /\ InitNoAnalyzer
    /\ InitNoDigest
    /\ InitNoAppender
    /\ files = <<>>
    /\ folders = AllFolders
    /\ configured = FALSE

NextAnalyze == Analyze \/ Attempt \/ GiveUp

\* a call of the analyzer runs to its end
SpecAnalyze == InitAnalyze /\ [][NextAnalyze]_vars /\ WF_vars(Attempt \/ GiveUp)

\* the response parses and validates
Passes(kind, resp) ==
    resp.shape = "object" /\ ValidatorOf(kind, resp.result) = "ok"

CallsBounded == Len(responses) <= ATTEMPTS

ReturnsFirstValid ==
    apc = "returned" =>
        /\ Passes(akind, responses[Len(responses)])
        /\ \A i \in 1..(Len(responses) - 1) : ~Passes(akind, responses[i])

RetriesEveryFailure ==
    apc = "raised" =>
        /\ Len(responses) = ATTEMPTS
        /\ \A i \in DOMAIN responses : ~Passes(akind, responses[i])

AnalysisTerminates == (apc = "try") ~> (apc \in {"returned", "raised"})

\* C20: an analysis makes at most 3 model calls, returns the first response
\* that parses and validates, goes on to the next call after a response that
\* does not, raises only after the third such response, and always ends.
C20_BoundedRetry ==
    /\ []CallsBounded
    /\ []ReturnsFirstValid
    /\ []RetriesEveryFailure
    /\ AnalysisTerminates

\* the step is a return of the handler
Returns == hpc' = "returned"

\* the step is the listing of the inbox, and the listing fails
ListingFails == hpc \in {"idle", "returned"} /\ faults' < faults

\* C21: the handler returns 500 exactly when the listing of the inbox fails,
\* and then no input was processed or moved; every other return is a 200.
C21_FatalOnlyWhenListingFails ==
    [][Returns =>
          /\ response'.status \in {200, 500}
          /\ response'.status = 500 <=> ListingFails
          /\ ListingFails =>
                /\ inbox' = inbox
                /\ archive' = archive
                /\ results' = <<>>
                /\ errors' = <<>>
                /\ batch' = <<>>]_vars

C21_Witness ==
    /\ hpc = "returned"
    /\ response.status = 500
    /\ inbox # <<>>

\* ------------------------------------------------------------------------
\* The generic vault append of route_items, on a vault that has or lacks
\* the folder of an extra file
\* ------------------------------------------------------------------------
ExtraItems == {Item("EVENT", <<"Dinner">>), Item("FINANCE", <<"Coffee 4.50">>)}

InitExtra ==
    /\ InitRun
    /\ InitNoHandler
    /\ InitNoAnalyzer
    /\ InitNoDigest
    /\ InitNoAppender
    /\ InitNoValidation
    /\ files = <<>>
    /\ folders \in {AllFolders, AllFolders \ {"2-Areas/Calendar"}}
    /\ configured = FALSE

ExtraPoints == {"extra", "daily_append"}

NextExtra ==
    \/ Start(ExtraItems, ExtraPoints)
    \/ RouteItem(ExtraPoints)
    \/ Finish

SpecExtra == InitExtra /\ [][NextExtra]_vars

\* the ids of the files at an extra-file path
FilesAt(fs, extra) ==
    {i \in DOMAIN fs : fs[i].folder = extra[1] /\ fs[i].name = <<extra[2], ".md">>}

ExtraPaths == {ROUTE_MAP(t).extra_file : t \in KnownTypes} \ {<<>>}

\* the step routes an item whose type has an extra file
RoutesExtra ==
    /\ pc = "routing"
    /\ idx' = idx + 1
    /\ ROUTE_MAP(analysis.items[idx].type).extra_file # <<>>

ExtraEffect ==
    LET item == analysis.items[idx]
        route == ROUTE_MAP(item.type)
        extra == route.extra_file
        block == content_block'
        old == FilesAt(files, extra)
        new == FilesAt(files', extra)
    IN  /\ extra[1] \notin folders =>
              /\ folders' = folders
              /\ new = {}
              /\ counts' = Increment(counts, item.type)
              /\ pc' = "routing"
              /\ (route.daily_note_heading # <<>> /\ daily_note_id # 0
                    /\ faults' = faults) =>
                    /\ Len(files') = Len(files)
                    /\ IsSubstring(block, files'[daily_note_id].content)
                    /\ Len(files'[daily_note_id].content)
                          > Len(files[daily_note_id].content)
        /\ (extra[1] \in folders /\ old = {} /\ faults' = faults) =>
              /\ Cardinality(new) = 1
              /\ \A i \in new :
                    files'[i].content
                        = <<"# ", extra[2], NL, NL>> \o block \o <<NL>>
        /\ old # {} =>
              /\ new = old
              /\ faults' = faults =>
                    \A i \in old :
                        /\ Len(files'[i].content) > Len(files[i].content)
                        /\ IsPrefix(files[i].content, files'[i].content)
                        /\ SubSeq(files'[i].content,
                                  Len(files'[i].content) - Len(block),
                                  Len(files'[i].content))
                              = block \o <<NL>>

\* C22: a missing folder of an extra-file path makes the generic append
\* write nothing and create nothing, while the item's other effects and the
\* following items go on; an existing folder without the file gets the file
\* with its header and the fragment; a later append adds to that one file.
C22_ExtraFileAppend ==
    /\ [][RoutesExtra => ExtraEffect]_vars
    /\ [](\A extra \in ExtraPaths : Cardinality(FilesAt(files, extra)) <= 1)

C22_Witness ==
    /\ last.type = "EVENT"
    /\ "2-Areas/Calendar" \notin folders
    /\ daily_note_id # 0
    /\ idx = 2
    /\ Len(analysis.items) = 2
    /\ IsSubstring(content_block, files[daily_note_id].content)

\* ------------------------------------------------------------------------
\* ticktick_client.py: resolve_project called again and again in one
\* process; budget counts the calls still to make
\* ------------------------------------------------------------------------
ProjectHints == {<<"W","o","r","k">>, Photography}

ResolveProject(Points) ==
    /\ pc = "idle"
    /\ budget > 0
    /\ \E hint \in ProjectHints :
       \E F \in SUBSET Points :
          LET tt0 == [tasks |-> tasks, projects |-> projects,
                      cache |-> projects_cache]
              resolved == resolve_project(tt0, hint, F)
          IN  /\ "tt_list" \in F => ~projects_cache.set
              /\ "tt_create" \in F =>
                    find_project_id(list_projects(tt0, "tt_list" \in F).list,
                                    hint) = 0
              /\ Cardinality(F) <= faults
              /\ faults' = faults - Cardinality(F)
              /\ budget' = budget - 1
              /\ projects' = resolved.tt.projects
              /\ projects_cache' = resolved.tt.cache
    /\ UNCHANGED <<files, folders, tasks, configured, clock, pc, analysis, idx,
                   today, daily_note_id, counts, content_block, ai_calls, last,
                   bookings>>
    /\ UNCHANGED validatorVars
    /\ UNCHANGED otherVars

\* the task manager holds no project of a hinted name
InitProject ==
    /\ InitNoHandler
    /\ InitNoAnalyzer
    /\ InitNoDigest
    /\ InitNoAppender
    /\ InitNoValidation
    /\ files = <<>>
    /\ folders = AllFolders
    /\ tasks = <<>>
    /\ projects \in {<<>>, <<<<"H","o","m","e">>>>}
    /\ projects_cache = NoCache
    /\ configured = TRUE
    /\ clock = 1
    /\ pc = "idle"
    /\ analysis = [items |-> <<>>, given |-> "list"]
    /\ idx = 1
    /\ today = 1
    /\ daily_note_id = 0
    /\ counts = NoCounts
    /\ content_block = <<>>
    /\ ai_calls = 0
    /\ budget = MaxResolves
    /\ faults \in 0..MaxFaults
    /\ last = NoLast
    /\ bookings = <<>>
    /\ inserted = <<>>

ProjectPoints == {"tt_list", "tt_create"}

NextProject == ResolveProject(ProjectPoints)

SpecProject == InitProject /\ [][NextProject]_vars

ProjectsNamed(name) == {i \in DOMAIN projects : projects[i] = name}

\* C23: over any sequence of resolve_project calls, the task manager holds
\* at most one project of a hinted name, whether or not a fetch of the
\* project list fails.
C23_ResolveProjectIdempotent ==
    \A hint \in ProjectHints : Cardinality(ProjectsNamed(hint)) <= 1

\* ------------------------------------------------------------------------
\* proactive_engine.py, telegram_bot.py, main.py: the proactive digests.  A
\* content is a record of the JSON object's keys; a text is a sequence of
\* lines; a string is one token.
\* ------------------------------------------------------------------------
DigestLabels == {"morning briefing", "nudge", "evening review"}

\* "briefing" in label, "nudge" in label, "review" in label
LabelHas(label, word) ==
    CASE word = "briefing" -> label = "morning briefing"
      [] word = "nudge" -> label = "nudge"
      [] word = "review" -> label = "evening review"
      [] OTHER -> FALSE

EmptyFallback(label) == NoContent

_fallback_response(label) ==
    IF LabelHas(label, "briefing")
    THEN [greeting |-> "Good morning!", bookings |-> <<>>, tasks |-> <<>>,
          events |-> <<>>,
          suggestions |-> <<"Could not generate AI suggestions -- check your dashboard manually today.">>,
          summary |-> "AI briefing generation failed -- check your vault directly."]
    ELSE IF LabelHas(label, "nudge")
    THEN [urgent |-> <<>>,
          reminders |-> <<"Could not scan dashboard -- check manually.">>,
          ideas |-> <<>>]
    ELSE IF LabelHas(label, "review")
    THEN [review |-> "Could not generate evening review.",
          still_pending |-> <<>>, tomorrow_preview |-> <<>>,
          goodnight |-> "Good night!"]
    ELSE NoContent

\* d.get(k, default)
Get(d, k, default) == IF k \in DOMAIN d THEN d[k] ELSE default

\* a heading, one line per entry, and an empty line, when the list is not
\* empty
Section(title, prefix, list) ==
    IF list = <<>> THEN <<>>
    ELSE <<title>> \o [i \in DOMAIN list |-> <<prefix, list[i]>>] \o << <<>> >>

send_morning_briefing(briefing) ==
    LET booked == Get(briefing, "bookings", <<>>)
        summary == Get(briefing, "summary", "")
    IN  << <<"*", Get(briefing, "greeting", "Good morning!"), "*">>, <<>> >>
        \o (IF booked = <<>> THEN <<>>
            ELSE << <<"*Bookings*">> >>
                 \o [i \in DOMAIN booked |->
                        <<booked[i].emoji, " ", booked[i].text>>]
                 \o << <<>> >>)
        \o Section(<<"*Tasks*">>, "* ", Get(briefing, "tasks", <<>>))
        \o Section(<<"*Events*">>, "(cal) ", Get(briefing, "events", <<>>))
        \o Section(<<"*Suggestions*">>, "(bulb) ",
                   Get(briefing, "suggestions", <<>>))
        \o (IF summary = "" THEN <<>> ELSE << <<"_", summary, "_">> >>)

send_nudge(nudge) ==
    LET lines ==
            Section(<<"*Needs attention*">>, "(red) ", Get(nudge, "urgent", <<>>))
            \o Section(<<"*Reminders*">>, "* ", Get(nudge, "reminders", <<>>))
            \o Section(<<"*Ideas for today*">>, "(bulb) ", Get(nudge, "ideas", <<>>))
    IN  IF lines = <<>>
        THEN << <<"_All clear -- nothing urgent right now._">> >>
        ELSE lines

\* the text _handle_evening_review builds
EveningReviewText(review) ==
    LET review_text == Get(review, "review", "")
    IN  (IF review_text = "" THEN <<>>
         ELSE << <<"*Evening Review*", NL, review_text>>, <<>> >>)
        \o Section(<<"*Still pending*">>, "* ", Get(review, "still_pending", <<>>))
        \o Section(<<"*Coming up*">>, "(cal) ",
                   Get(review, "tomorrow_preview", <<>>))
        \o << <<"_", Get(review, "goodnight", "Good night!"), "_">> >>

DigestText(label, content) ==
    CASE label = "morning briefing" -> send_morning_briefing(content)
      [] label = "nudge" -> send_nudge(content)
      [] OTHER -> EveningReviewText(content)

\* the texts of the exceptions an attempt may raise
ErrorTexts ==
    {"429 Resource exhausted", "Expecting value: line 1 column 1 (char 0)"}

\* what the model answers to the prompt of a digest: a JSON object with the
\* keys asked for (or, in CallGemini, the empty object)
Generated(label) ==
    CASE label = "morning briefing" ->
            [greeting |-> "Good morning, two shoots today!",
             bookings |-> << [emoji |-> "(camera)", text |-> "Reply to Ma"] >>,
             tasks |-> <<"Call the venue">>, events |-> <<>>,
             suggestions |-> <<>>, summary |-> "1 booking, 1 task"]
      [] label = "nudge" ->
            [urgent |-> <<"Reply to Ma">>, reminders |-> <<>>, ideas |-> <<>>]
      [] OTHER ->
            [review |-> "A good day.", still_pending |-> <<"Call the venue">>,
             tomorrow_preview |-> <<>>, goodnight |-> "Sleep well!"]

\* a handler calls generate_morning_briefing, generate_nudge or
\* generate_evening_review
Generate ==
    /\ dpc \in {"idle", "sent", "unsent"}
    /\ dlabel' \in DigestLabels
    /\ dpc' = "try"
    /\ dattempt' = 0
    /\ dlast_error' = ""
    /\ dcontent' = NoContent
    /\ dtext' = <<>>
    /\ UNCHANGED <<routerVars, validatorVars, inserted, handlerVars,
                   analyzerVars, concVars>>

\* one pass of the for loop of _call_gemini: the parsed object is returned,
\* or an exception of the call or of json.loads is caught
CallGemini ==
    /\ dpc = "try"
    /\ dattempt < ATTEMPTS
    /\ \/ /\ dpc' = "generated"
          /\ dcontent' \in {Generated(dlabel), NoContent}
          /\ UNCHANGED <<dattempt, dlast_error>>
       \/ /\ dlast_error' \in ErrorTexts
          /\ dattempt' = dattempt + 1
          /\ UNCHANGED <<dpc, dcontent>>
    /\ UNCHANGED <<dlabel, dtext>>
    /\ UNCHANGED <<routerVars, validatorVars, inserted, handlerVars,
                   analyzerVars, concVars>>

\* after the loop: return _fallback_response(label)
Fallback ==
    /\ dpc = "try"
    /\ dattempt = ATTEMPTS
    /\ dpc' = "generated"
    /\ dcontent' = _fallback_response(dlabel)
    /\ UNCHANGED <<dlabel, dattempt, dlast_error, dtext>>
    /\ UNCHANGED <<routerVars, validatorVars, inserted, handlerVars,
                   analyzerVars, concVars>>

\* the handler formats the content and gives the text to send_message,
\* which returns whether the chat accepted it
Send ==
    /\ dpc = "generated"
    /\ dtext' = DigestText(dlabel, dcontent)
    /\ dpc' \in {"sent", "unsent"}
    /\ UNCHANGED <<dlabel, dattempt, dlast_error, dcontent>>
    /\ UNCHANGED <<routerVars, validatorVars, inserted, handlerVars,
                   analyzerVars, concVars>>

InitDigest ==
    /\ InitRun
    /\ InitNoValidation
    /\ InitNoHandler
    /\ InitNoAnalyzer
    /\ InitNoDigest
    /\ InitNoAppender
    /\ files = <<>>
    /\ folders = AllFolders
    /\ configured = FALSE

NextDigest == Generate \/ CallGemini \/ Fallback \/ Send

SpecDigest == InitDigest /\ [][NextDigest]_vars

\* the fixed text of a digest whose generation failed
PlaceholderText(label) ==
    CASE label = "morning briefing" ->
            << <<"*", "Good morning!", "*">>, <<>>,
               <<"*Suggestions*">>,
               <<"(bulb) ", "Could not generate AI suggestions -- check your dashboard manually today.">>,
               <<>>,
               <<"_", "AI briefing generation failed -- check your vault directly.", "_">> >>
      [] label = "nudge" ->
            << <<"*Reminders*">>,
               <<"* ", "Could not scan dashboard -- check manually.">>, <<>> >>
      [] OTHER ->
            << <<"*Evening Review*", NL, "Could not generate evening review.">>,
               <<>>, <<"_", "Good night!", "_">> >>

TokensOf(text) == UNION {Range(text[i]) : i \in DOMAIN text}

\* C24: a digest whose generation failed on all 3 attempts has the fixed
\* placeholder content of its kind, the text given to the chat is the
\* placeholder text, no error text is in it, and the generator has not
\* raised.
C24_DigestFallsBack ==
    /\ dpc \in {"idle", "try", "generated", "sent", "unsent"}
    /\ (dattempt = ATTEMPTS /\ dpc \in {"sent", "unsent"}) =>
          /\ dlast_error \in ErrorTexts
          /\ dtext = PlaceholderText(dlabel)
          /\ TokensOf(dtext) \cap ErrorTexts = {}

C24_Witness ==
    /\ dpc = "sent"
    /\ dattempt = ATTEMPTS
    /\ dlabel = "evening review"

\* the ids of the daily notes of date d
DailyNotes(fs, d) ==
    {i \in DOMAIN fs :
        fs[i].folder = DAILY_NOTES_FOLDER /\ fs[i].name = <<Iso(d), ".md">>}

\* the for loop of route_items neither looks the daily note up nor creates
\* one: it uses the id found before the loop
LoopKeepsDailyNote ==
    pc = "routing" =>
        /\ daily_note_id' = daily_note_id
        /\ \A d \in Dates : DailyNotes(files', d) = DailyNotes(files, d)

\* C25: one call of route_items looks up or creates the daily note at most
\* once, before its loop, and successive calls for a date never create a
\* second note of that date.
C25_OneDailyNotePerDate ==
    /\ [][LoopKeepsDailyNote]_vars
    /\ [](\A d \in Dates : Cardinality(DailyNotes(files, d)) <= 1)

C25_Witness ==
    /\ pc = "routing"
    /\ budget = 0
    /\ idx = 1
    /\ Len(analysis.items) = 1
    /\ clock = 1
    /\ daily_note_id # 0
    /\ Cardinality(DailyNotes(files, 1)) = 1
    /\ Len(files[daily_note_id].content) > Len(DAILY_NOTE_TEMPLATE(1))

\* ------------------------------------------------------------------------
\* Appends to the daily note under three of its headings, of fragments as
\* _format_item builds them; the content of one TASK names a later section
\* ------------------------------------------------------------------------
SectionFragments ==
    { <<"- [ ] ", "(medium)", " ", "move the talk to ", "## Events">>,
      <<"- ", "Dinner", NL, "  - _Source: ", Source, "_">> }

SectionHeadings == {<<"## Tasks">>, <<"## Events">>, <<"## Diary">>}

NextSection == AppendUnderHeading(SectionHeadings, SectionFragments)

SpecSection == InitAppend /\ [][NextSection]_vars

TemplateHeadings == {"## Tasks", "## Events", "## Diary", "## Notes"}

\* position i starts a line of the content
StartsLine(content, i) == i = 1 \/ content[i - 1] = NL

\* the line at position i is a section heading
IsHeadingLine(content, i) ==
    /\ i \in DOMAIN content
    /\ StartsLine(content, i)
    /\ content[i] \in TemplateHeadings
    /\ i = Len(content) \/ content[i + 1] = NL

\* the position of the line that is the heading h
HeadingLine(content, h) ==
    CHOOSE i \in DOMAIN content :
        /\ IsHeadingLine(content, i)
        /\ content[i] = h[1]
        /\ \A j \in 1..(i - 1) : ~(IsHeadingLine(content, j) /\ content[j] = h[1])

\* the fragment stands, as lines of its own, between the line of heading h
\* and the next heading line
InSection(content, h, fragment) ==
    \E p \in DOMAIN content :
        /\ StartsLine(content, p)
        /\ p + Len(fragment) <= Len(content)
        /\ SubSeq(content, p, p + Len(fragment)) = fragment \o <<NL>>
        /\ p > HeadingLine(content, h)
        /\ \A q \in (HeadingLine(content, h) + 1)..(p - 1) :
              ~IsHeadingLine(content, q)

\* C26: every fragment appended to the daily note under a heading is inside
\* that heading's section.
C26_FragmentsStayInSection ==
    \A k \in DOMAIN inserted :
        InSection(files[1].content, inserted[k].heading, inserted[k].fragment)

\* ------------------------------------------------------------------------
\* Appends at the end of a vault file: no heading is given, or the heading
\* given is not in the file
\* ------------------------------------------------------------------------
PriorContents ==
    { <<>>,
      <<"# ", "Ideas">>,
      <<"# ", "Ideas", NL>>,
      <<"# ", "Ideas", NL, NL>>,
      <<"# ", "Ideas", NL, NL, "- ", "Soup", NL, NL, NL>> }

EndFragments ==
    { <<"- ", "Dinner">>,
      <<"- ", "Dinner", NL, "  - _Source: ", Source, "_">> }

EndHeadings == {<<>>, <<"## Tasks">>}

InitEnd ==
    /\ InitRun
    /\ InitNoHandler
    /\ InitNoAnalyzer
    /\ InitNoDigest
    /\ InitNoAppender
    /\ InitNoValidation
    /\ \E prior \in PriorContents :
          files = <<[folder |-> "3-Resources/Ideas", name |-> <<"Ideas", ".md">>,
                     content |-> prior]>>
    /\ folders = AllFolders
    /\ configured = FALSE

NextEnd == AppendUnderHeading(EndHeadings, EndFragments)

SpecEnd == InitEnd /\ [][NextEnd]_vars

\* the content without its trailing newlines
WithoutTrailingNewlines(content) == RStripSet(content, {NL})

\* C27: an append with no heading, or with a heading the file does not have,
\* puts the fragment at the very end, one newline after the last line of
\* the prior content.
C27_OneNewlineBeforeFragment ==
    [][Len(inserted') = Len(inserted) + 1 =>
          files'[1].content
              = WithoutTrailingNewlines(files[1].content) \o <<NL>>
                    \o inserted'[Len(inserted')].fragment \o <<NL>>]_vars

\* the conversation log of a client record: the content from its
\* "## Conversation Log" line on
LogOf(content) ==
    SubSeq(content, IndexOf(<<"## Conversation Log">>, content), Len(content))

HasLog(content) == IsSubstring(<<"## Conversation Log">>, content)

\* the booking is an update of an existing record that has a log
UpdatesLog(b) ==
    /\ ~b.created
    /\ b.file # 0
    /\ b.file \in DOMAIN b.before
    /\ HasLog(b.before[b.file].content)

\* C28: an update of a client record leaves the log the record had as it
\* was and puts its entry after it, so that the logs after successive
\* updates of a record extend one another.
C28_LogIsAppendOnly ==
    /\ \A k \in DOMAIN bookings :
          UpdatesLog(bookings[k]) =>
              LET b == bookings[k]
                  old == LogOf(b.before[b.file].content)
                  new == LogOf(b.after[b.file].content)
              IN  /\ HasLog(b.after[b.file].content)
                  /\ IsPrefix(old, new)
                  /\ ~b.raised =>
                        /\ Len(new) > Len(old)
                        /\ IsSubstring(<<"- **Summary:** ">> \o Or(b.item.content, <<>>),
                                       SubSeq(new, Len(old) + 1, Len(new)))
    /\ \A j, k \in DOMAIN bookings :
          (j < k /\ UpdatesLog(bookings[k]) /\ bookings[j].file = bookings[k].file
             /\ bookings[j].file # 0)
          => IsPrefix(LogOf(bookings[j].after[bookings[j].file].content),
                      LogOf(bookings[k].after[bookings[k].file].content))

\* ------------------------------------------------------------------------
\* drive_ops.append_to_md run by two invocations on one file: the read of
\* the whole content and the write of the whole content are two steps, and
\* nothing orders the steps of one invocation with those of the other
\* ------------------------------------------------------------------------
Invocations == {1, 2}

FragmentOf(p) ==
    IF p = 1 THEN <<"- [ ] ", "Call the venue">> ELSE <<"- ", "Dinner">>

ConcurrentHeadings == {<<>>, <<"## Tasks">>, <<"## Events">>}

\* current = read_md_file(file_id)
ReadFile(p) ==
    /\ appender[p].pc = "start"
    /\ appender' = [appender EXCEPT ![p].pc = "read",
                                    ![p].current = read_md_file(files, 1)]
    /\ overlapped' = (overlapped \/ \E q \in Invocations : appender[q].pc = "read")
    /\ UNCHANGED <<routerVars, validatorVars, inserted, handlerVars,
                   analyzerVars, digestVars>>

\* _upload_content(file_id, updated)
WriteFile(p) ==
    /\ appender[p].pc = "read"
    /\ files' = _upload_content(files, 1,
                    AppendedContent(appender[p].current, appender[p].fragment,
                                    appender[p].heading))
    /\ appender' = [appender EXCEPT ![p].pc = "done"]
    /\ UNCHANGED <<folders, tasks, projects, projects_cache, configured, clock,
                   pc, analysis, idx, today, daily_note_id, counts,
                   content_block, ai_calls, budget, faults, last, bookings>>
    /\ UNCHANGED <<overlapped, validatorVars, inserted, handlerVars,
                   analyzerVars, digestVars>>

\* the file is a daily note or a vault file that has content; each
\* invocation appends its fragment, under a heading or at the end
InitConcurrent ==
    /\ InitRun
    /\ InitNoHandler
    /\ InitNoAnalyzer
    /\ InitNoDigest
    /\ InitNoValidation
    /\ \E prior \in {DAILY_NOTE_TEMPLATE(1), <<"# ", "Ideas", NL>>} :
          files = <<[folder |-> DAILY_NOTES_FOLDER, name |-> <<Iso(1), ".md">>,
                     content |-> prior]>>
    /\ folders = AllFolders
    /\ configured = FALSE
    /\ \E hs \in [Invocations -> ConcurrentHeadings] :
          appender = [p \in Invocations |->
                         [pc |-> "start", current |-> <<>>,
                          fragment |-> FragmentOf(p), heading |-> hs[p]]]
    /\ overlapped = FALSE

NextConcurrent == \E p \in Invocations : ReadFile(p) \/ WriteFile(p)

SpecConcurrent == InitConcurrent /\ [][NextConcurrent]_vars

BothDone == \A p \in Invocations : appender[p].pc = "done"

Present(p) == IsSubstring(appender[p].fragment \o <<NL>>, files[1].content)

\* C29: two appends to one file that run one after the other leave both
\* fragments in the file; of two appends whose reads and writes interleave,
\* the fragment of the last writer is in the file (the other may be lost).
C29_SequentialAppendsKeepBoth ==
    BothDone =>
        /\ ~overlapped => \A p \in Invocations : Present(p)
        /\ \E p \in Invocations : Present(p)

C29_Witness ==
    /\ BothDone
    /\ overlapped
    /\ \E p \in Invocations : ~Present(p)

\* the positions of the effects log that hold step st of file f
EffectsOf(f, st) ==
    {i \in DOMAIN effects : effects[i] = [file |-> f, step |-> st]}

\* a rename follows the routing and the record of the same input, and a
\* move follows its rename
OrderedEffects ==
    \A i \in DOMAIN effects :
        /\ effects[i].step = "move" =>
              /\ i > 3
              /\ effects[i - 3] = [file |-> effects[i].file, step |-> "route"]
              /\ effects[i - 2] = [file |-> effects[i].file, step |-> "record"]
              /\ effects[i - 1] = [file |-> effects[i].file, step |-> "rename"]
        /\ effects[i].step = "rename" =>
              /\ i > 2
              /\ effects[i - 2] = [file |-> effects[i].file, step |-> "route"]
              /\ effects[i - 1] = [file |-> effects[i].file, step |-> "record"]

\* an input whose processing raised is in the inbox and not in the
\* archive, and the writes made before the failing step are in the log
FailedInputsStay ==
    hpc \in {"loop", "returned"} =>
        \A k \in DOMAIN errors :
            /\ errors[k].file \in Range(inbox)
            /\ errors[k].file \notin archive
            /\ EffectsOf(errors[k].file, "move") = {}
            /\ errors[k].at \in {"record", "rename", "move"} =>
                  EffectsOf(errors[k].file, "route") # {}
            /\ errors[k].at \in {"rename", "move"} =>
                  EffectsOf(errors[k].file, "record") # {}

\* the next invocation that lists the inbox has the failed inputs in its
\* batch
SeenAgain ==
    (hpc # "loop" /\ hpc' = "loop") => ErrorFiles \subseteq Range(batch')

\* C30: an input is renamed and moved only after its items were routed and
\* its analysis record was created; an input whose processing raised stays
\* in the inbox, is in the batch of the next invocation, and the writes it
\* made before the failure are never undone.
C30_MoveLastAndNoRollback ==
    /\ []OrderedEffects
    /\ []FailedInputsStay
    /\ [][SeenAgain]_vars
    /\ [][IsPrefix(effects, effects')]_vars
    /\ [](archive = {effects[i].file : i \in {j \in DOMAIN effects :
                                                effects[j].step = "move"}})

C30_Witness ==
    /\ hpc = "returned"
    /\ \E f \in archive :
          /\ Cardinality(EffectsOf(f, "route")) = 2
          /\ Cardinality(EffectsOf(f, "record")) = 2
          /\ Cardinality(EffectsOf(f, "move")) = 1

====
